---- MODULE Spec2Model ----
(***************************************************************************)
(* Native Group Orchestration: the orchestrator's mapping table, managed   *)
(* resources index, provisioning / cleanup routines, background tasks and  *)
(* dispatch routing, over the three protocol handlers.                     *)
(*                                                                         *)
(* Representation.  An entity id or logical key "domain.object" is the     *)
(* pair <<domain, object>>; a native group name "ha_<key>_<protocol>" is   *)
(* the triple <<"ha", key, protocol>> and a Z-Wave capability sub-group    *)
(* key "<name>.<capability>" the 4-tuple <<"ha", key, protocol, cap>>; a   *)
(* ZHA numeric group id n is <<"gid", n>>; Python None for an id is <<>>,  *)
(* for a string-valued field the string "None".  Python lists whose order  *)
(* the routines never read (member lists) are sets.  A task step runs from *)
(* one suspension point of a coroutine to the next.                        *)
(***************************************************************************)
EXTENDS Integers, Sequences, FiniteSets, TLC

\* ------------------------------------------------------------------ const.py
PROTOCOL_ZWAVE_JS == "zwave_js"
PROTOCOL_ZIGBEE2MQTT == "zigbee2mqtt"
PROTOCOL_ZHA == "zha"
PROTOCOL_UNKNOWN == "unknown"

GROUPING_TYPE_GROUP == "group"
GROUPING_TYPE_SCENE == "scene"
GROUPING_TYPE_AREA == "area"
GROUPING_TYPE_FLOOR == "floor"
GROUPING_TYPE_LABEL == "label"

SCENE_ID_START == 100
SCENE_ID_MAX == 255

ZWAVE_CAP_BINARY == "binary"
ZWAVE_CAP_DIMMER == "dimmer"
ZWAVE_CAP_COLOR == "color"
ZWAVE_GROUPABLE_DOMAINS == {"light", "switch", "cover"}

MANAGED_GROUP_ID_START == 4096
MANAGED_GROUP_ID_END == 8191

Protocols == {PROTOCOL_ZWAVE_JS, PROTOCOL_ZIGBEE2MQTT, PROTOCOL_ZHA}
Capabilities == {ZWAVE_CAP_BINARY, ZWAVE_CAP_DIMMER, ZWAVE_CAP_COLOR}

\* The order in which a provisioning pass visits the protocols of by_protocol.
ProtocolOrder ==
    <<PROTOCOL_ZWAVE_JS, PROTOCOL_ZIGBEE2MQTT, PROTOCOL_ZHA, PROTOCOL_UNKNOWN>>

\* ------------------------------------------------------- bounds of the model
\* Number of environment events (state changes, registry updates, service
\* calls) in one behaviour.
MaxEvents == 1
\* Number of times the config entry is set up in one behaviour.
MaxSetups == 2
\* Number of background tasks in flight at the same time.
MaxTasks == 1
\* Scene ids allocated in one allocation sequence (SpecAlloc).
MaxAllocations == 160

\* The bounds of a behaviour with one coroutine in flight at a time.
Limits == [tasks |-> MaxTasks, events |-> MaxEvents]

\* ------------------------------------------------- the platform's registries
\* Entity registry snapshot: platform, unique id (split at "-"), device.
EntityRegistry ==
    [e \in { <<"light", "zc">>, <<"light", "zd">>, <<"climate", "zx">>,
             <<"light", "zn">>, <<"light", "m1">>, <<"light", "m2">>,
             <<"light", "h1">>, <<"switch", "h2">>, <<"light", "v">> } |->
        CASE e = <<"light", "zc">> ->
                [platform |-> "zwave_js", unique_id |-> <<"cfg", "5", "0">>, device_id |-> "d5"]
          [] e = <<"light", "zd">> ->
                [platform |-> "zwave_js", unique_id |-> <<"cfg", "6", "0">>, device_id |-> "d6"]
          [] e = <<"climate", "zx">> ->
                [platform |-> "zwave_js", unique_id |-> <<"cfg", "7", "0">>, device_id |-> "d7"]
          [] e = <<"light", "zn">> ->
                [platform |-> "zwave_js", unique_id |-> <<"cfg", "node", "0">>, device_id |-> "d8"]
          [] e = <<"light", "m1">> ->
                [platform |-> "mqtt", unique_id |-> <<"m1">>, device_id |-> "dm1"]
          [] e = <<"light", "m2">> ->
                [platform |-> "mqtt", unique_id |-> <<"m2">>, device_id |-> "dm2"]
          [] e = <<"light", "h1">> ->
                [platform |-> "zha", unique_id |-> <<"aa:01", "1", "6">>, device_id |-> "dh1"]
          [] e = <<"switch", "h2">> ->
                [platform |-> "zha", unique_id |-> <<"aa:02", "1", "6">>, device_id |-> "dh2"]
          [] OTHER ->
                [platform |-> "hue", unique_id |-> <<"v">>, device_id |-> "dv"]]

\* Device registry snapshot: for each device its identifiers (domain,
\* whether the identifier contains "zigbee2mqtt", the 0x... match or "None").
DeviceRegistry ==
    [d \in {"dm1", "dm2", "dv"} |->
        CASE d = "dm1" -> {[domain |-> "mqtt", z2m |-> TRUE, hex |-> "0xa1"]}
          [] d = "dm2" -> {[domain |-> "mqtt", z2m |-> TRUE, hex |-> "0xa2"]}
          [] OTHER -> {[domain |-> "hue", z2m |-> FALSE, hex |-> "None"]}]

\* State machine attributes read by the classifier.
supported_color_modes(e) ==
    CASE e = <<"light", "zc">> -> {"brightness", "hs"}
      [] e = <<"light", "zd">> -> {"brightness"}
      [] e = <<"light", "uc">> -> {"brightness", "rgb"}
      [] OTHER -> {}

COLOR_MODES_COLOR == {"hs", "xy", "rgb", "rgbw", "rgbww"}
COLOR_MODES_BRIGHTNESS == {"brightness", "color_temp", "white"} \cup COLOR_MODES_COLOR

\* Strings that int() accepts.
Numerals == {"5", "6", "7"}

\* Entity ids the environment can put into a grouping; <<"light","u">> has no
\* registry entry.
Entities == DOMAIN EntityRegistry \cup {<<"light", "u">>}

\* ------------------------------------------------------------ classifier.py
_detect_capability(entity_id) ==
    LET domain == entity_id[1] IN
    IF domain \notin ZWAVE_GROUPABLE_DOMAINS THEN "None"
    ELSE IF domain = "switch" THEN ZWAVE_CAP_BINARY
    ELSE IF domain = "light" THEN
        IF supported_color_modes(entity_id) \cap COLOR_MODES_COLOR # {}
            THEN ZWAVE_CAP_COLOR
        ELSE ZWAVE_CAP_DIMMER
    ELSE ZWAVE_CAP_BINARY

_extract_zwave_node_id(entry) ==
    IF Len(entry.unique_id) >= 2 /\ entry.unique_id[2] \in Numerals
        THEN entry.unique_id[2]
    ELSE "None"

_extract_zha_ieee(entry) == entry.unique_id[1]

_extract_z2m_identifier(identifiers) ==
    IF \E i \in identifiers : i.domain = "mqtt" /\ i.z2m /\ i.hex # "None"
        THEN (CHOOSE i \in identifiers : i.domain = "mqtt" /\ i.z2m /\ i.hex # "None").hex
    ELSE "None"

classify_entity(entity_id) ==
    IF entity_id \notin DOMAIN EntityRegistry THEN
        [protocol |-> PROTOCOL_UNKNOWN, native_id |-> "None",
         entity_id |-> entity_id, capability |-> "None"]
    ELSE
        LET entry == EntityRegistry[entity_id]
            capability == _detect_capability(entity_id)
        IN  IF entry.platform = "zwave_js" THEN
                [protocol |-> PROTOCOL_ZWAVE_JS,
                 native_id |-> _extract_zwave_node_id(entry),
                 entity_id |-> entity_id, capability |-> capability]
            ELSE IF entry.platform = "zha" THEN
                [protocol |-> PROTOCOL_ZHA, native_id |-> _extract_zha_ieee(entry),
                 entity_id |-> entity_id, capability |-> capability]
            ELSE IF /\ entry.platform = "mqtt"
                    /\ entry.device_id \in DOMAIN DeviceRegistry
                    /\ _extract_z2m_identifier(DeviceRegistry[entry.device_id]) # "None"
                THEN
                [protocol |-> PROTOCOL_ZIGBEE2MQTT,
                 native_id |-> _extract_z2m_identifier(DeviceRegistry[entry.device_id]),
                 entity_id |-> entity_id, capability |-> capability]
            ELSE
                [protocol |-> PROTOCOL_UNKNOWN, native_id |-> "None",
                 entity_id |-> entity_id, capability |-> capability]

\* protocol -> ProtocolInfo records, for the protocols that have a member.
classify_entities(entity_ids) ==
    LET infos == {classify_entity(e) : e \in entity_ids} IN
    [p \in {i.protocol : i \in infos} |-> {i \in infos : i.protocol = p}]

\* No ProtocolInfo.
NoInfo == [protocol |-> "None", native_id |-> "None",
           entity_id |-> <<>>, capability |-> "None"]

\* ------------------------------------------------------------------ helpers
Put(f, k, v) == [x \in DOMAIN f \cup {k} |-> IF x = k THEN v ELSE f[x]]
Drop(f, k) == [x \in DOMAIN f \ {k} |-> f[x]]

\* Logical grouping keys of the model: one grouping of each type, which the
\* events of a behaviour are about, and a second scene.
EventKeys ==
    { <<GROUPING_TYPE_GROUP, "g1">>, <<GROUPING_TYPE_SCENE, "s1">>,
      <<GROUPING_TYPE_AREA, "a1">>, <<GROUPING_TYPE_FLOOR, "f1">>,
      <<GROUPING_TYPE_LABEL, "l1">> }
SecondScene == <<GROUPING_TYPE_SCENE, "s2">>
Keys == EventKeys \cup {SecondScene}
StateKeys == {k \in EventKeys : k[1] \in {GROUPING_TYPE_GROUP, GROUPING_TYPE_SCENE}}
RegistryKeys == EventKeys \ StateKeys
KeysOfType(type) == {k \in Keys : k[1] = type}

\* The grouping types; options.get(CONF_ENABLE_<type>, True) is true for the
\* types in the variable options.
GroupingTypes ==
    {GROUPING_TYPE_GROUP, GROUPING_TYPE_SCENE, GROUPING_TYPE_AREA,
     GROUPING_TYPE_FLOOR, GROUPING_TYPE_LABEL}

\* Member sets the environment gives a grouping.
MemberChoices ==
    { {},
      {<<"light", "zc">>},
      {<<"light", "zc">>, <<"light", "zd">>, <<"climate", "zx">>, <<"light", "m1">>},
      {<<"light", "m1">>, <<"light", "m2">>, <<"light", "h1">>, <<"switch", "h2">>,
       <<"light", "u">>},
      {<<"light", "zd">>, <<"light", "zn">>, <<"light", "v">>} }

\* ------------------------------------------------------------- mapping.py
NativeGroupRef(protocol, group_id, group_name, member_entity_ids, member_native_ids) ==
    [protocol |-> protocol, group_id |-> group_id, group_name |-> group_name,
     member_entity_ids |-> member_entity_ids, member_native_ids |-> member_native_ids]

NativeSceneRef(protocol, group_name, scene_id, member_entity_ids) ==
    [protocol |-> protocol, group_name |-> group_name, scene_id |-> scene_id,
     member_entity_ids |-> member_entity_ids]

\* ------------------------------------------------------------------- state
VARIABLES
    groupings,          \* platform: key -> [exists, members] (states and registries)
    loaded,             \* a config entry is set up (an orchestrator object exists)
    enabled_protocols,  \* options[CONF_ENABLED_PROTOCOLS]
    handlers,           \* _handlers: the protocols with an active handler
    mappings,           \* _mappings: key -> GroupMapping
    managed_resources,  \* _managed_resources: key -> set of resource references
    scene_id_counter,   \* _scene_id_counter
    hs,                 \* the handlers' tables (NewHandlerState)
    persisted,          \* the blob in the platform's store
    started,            \* _started
    sync_pending,       \* the debouncer holds a scheduled call
    tasks,              \* coroutines in flight, each suspended at a call
    lastProv,           \* the provisioning pass that ended last (its locals)
    lastCleanup,        \* the _cleanup_resources call that began last
    lastSync,           \* the async_sync_all runs that ended last (what they left)
    lastDispatch,       \* the async_dispatch call a behaviour ends with
    events,             \* number of environment events so far
    setups,             \* number of times the entry was set up so far
    allocated,          \* the scene ids an allocation sequence was handed (SpecAlloc)
    lastReconcile,      \* the reconciliation pass that ran last
    listeners,          \* sets of listeners (and periodic timers) attached
    stopping,           \* async_stop is awaiting the tasks it cancelled
    window,             \* the debouncer's calls: in the open window, in the last run
    info,               \* the ProtocolInfo the classifier returned last
    options,            \* options[CONF_ENABLE_*]: the grouping types whose sync is enabled
    limits,             \* what bounds this behaviour: coroutines in flight, events
    clock,              \* time.time()
    lastCall,           \* the handler call made last, on the handlers alone
    zha                 \* a ZHAHandler object and the groups of its gateway

\* time.time(): the clock, read when a mapping is built and when the state is
\* saved.
Now == clock

GroupMapping(ha_entity_id, ha_entity_type) ==
    [ha_entity_id |-> ha_entity_id, ha_entity_type |-> ha_entity_type,
     native_groups |-> <<>>, native_scenes |-> <<>>,
     ungrouped_entities |-> {}, last_synced |-> Now, sync_error |-> "None"]

\* GroupMapping.to_dict: the dictionary that is stored.
to_dict(m) ==
    [ha_entity_id |-> m.ha_entity_id, ha_entity_type |-> m.ha_entity_type,
     native_groups |->
        [p \in DOMAIN m.native_groups |->
            [protocol |-> m.native_groups[p].protocol,
             group_id |-> m.native_groups[p].group_id,
             group_name |-> m.native_groups[p].group_name,
             member_entity_ids |-> m.native_groups[p].member_entity_ids,
             member_native_ids |-> m.native_groups[p].member_native_ids]],
     native_scenes |->
        [p \in DOMAIN m.native_scenes |->
            [protocol |-> m.native_scenes[p].protocol,
             group_name |-> m.native_scenes[p].group_name,
             scene_id |-> m.native_scenes[p].scene_id,
             member_entity_ids |-> m.native_scenes[p].member_entity_ids]],
     ungrouped_entities |-> m.ungrouped_entities,
     last_synced |-> m.last_synced,
     sync_error |-> m.sync_error]

\* data.get(key, default)
Get(data, key, default) == IF key \in DOMAIN data THEN data[key] ELSE default

\* A from_dict that does not read sync_error.
from_dict_without_sync_error(d) ==
    [ha_entity_id |-> d.ha_entity_id, ha_entity_type |-> d.ha_entity_type,
     native_groups |->
        [p \in DOMAIN Get(d, "native_groups", <<>>) |->
            NativeGroupRef(d.native_groups[p].protocol, d.native_groups[p].group_id,
                           d.native_groups[p].group_name,
                           d.native_groups[p].member_entity_ids,
                           d.native_groups[p].member_native_ids)],
     native_scenes |->
        [p \in DOMAIN Get(d, "native_scenes", <<>>) |->
            NativeSceneRef(d.native_scenes[p].protocol, d.native_scenes[p].group_name,
                           d.native_scenes[p].scene_id,
                           d.native_scenes[p].member_entity_ids)],
     ungrouped_entities |-> Get(d, "ungrouped_entities", {}),
     last_synced |-> Get(d, "last_synced", 0),
     sync_error |-> "None"]

\* GroupMapping.from_dict: the mapping built from a stored dictionary, with
\* the defaults of the optional keys.
from_dict(d) ==
    [ha_entity_id |-> d.ha_entity_id, ha_entity_type |-> d.ha_entity_type,
     native_groups |->
        [p \in DOMAIN Get(d, "native_groups", <<>>) |->
            NativeGroupRef(d.native_groups[p].protocol, d.native_groups[p].group_id,
                           d.native_groups[p].group_name,
                           d.native_groups[p].member_entity_ids,
                           d.native_groups[p].member_native_ids)],
     native_scenes |->
        [p \in DOMAIN Get(d, "native_scenes", <<>>) |->
            NativeSceneRef(d.native_scenes[p].protocol, d.native_scenes[p].group_name,
                           d.native_scenes[p].scene_id,
                           d.native_scenes[p].member_entity_ids)],
     ungrouped_entities |-> Get(d, "ungrouped_entities", {}),
     last_synced |-> Get(d, "last_synced", 0),
     sync_error |-> Get(d, "sync_error", "None")]

\* Resource references "protocol:group:<id>" / "protocol:scene:<group>:<scene_id>".
GroupResource(protocol, id) ==
    [protocol |-> protocol, type |-> "group", id |-> id, scene_id |-> 0]
SceneResource(protocol, group_name, scene_id) ==
    [protocol |-> protocol, type |-> "scene", id |-> group_name, scene_id |-> scene_id]

\* --------------------------------------------------------------- handlers
\* The handlers' own tables: ZWaveJSHandler._groups/_group_capabilities,
\* Zigbee2MQTTHandler._groups, ZHAHandler._groups/_group_name_to_id/
\* _next_group_id, and the scenes stored on the devices.
NewHandlerState ==
    [zw_groups |-> <<>>, zw_caps |-> <<>>, z2m_groups |-> <<>>,
     zha_groups |-> <<>>, zha_names |-> <<>>, zha_next |-> MANAGED_GROUP_ID_START,
     scenes |-> {}]

SubGroupKey(base_name, capability) ==
    <<base_name[1], base_name[2], base_name[3], capability>>

\* int(group_id) succeeds on a numeric id only.
IsNumericId(id) == Len(id) = 2

\* Whether the call can raise into the orchestrator (a publish that fails,
\* int() of a group name); the other calls catch their errors themselves.
CanRaise(call, protocol) ==
    CASE call = "create" -> protocol = PROTOCOL_ZIGBEE2MQTT
      [] call = "store" -> protocol \in {PROTOCOL_ZIGBEE2MQTT, PROTOCOL_ZHA}
      [] call = "del" -> protocol \in {PROTOCOL_ZIGBEE2MQTT, PROTOCOL_ZHA}
      [] OTHER -> FALSE

async_supports_native_scenes(protocol) == TRUE

\* async_create_group: the handler state afterwards and the id returned.
async_create_group(h, protocol, name, member_native_ids) ==
    IF protocol = PROTOCOL_ZWAVE_JS THEN
        [hs |-> [h EXCEPT !.zw_groups = Put(@, name, member_native_ids)], id |-> name]
    ELSE IF protocol = PROTOCOL_ZIGBEE2MQTT THEN
        [hs |-> [h EXCEPT !.z2m_groups = Put(@, name, member_native_ids)], id |-> name]
    ELSE IF name \in DOMAIN h.zha_names THEN
        LET gid == h.zha_names[name] IN
        [hs |-> [h EXCEPT !.zha_groups =
                    Put(@, gid, (IF gid \in DOMAIN @ THEN @[gid] ELSE {})
                                    \cup member_native_ids)],
         id |-> gid]
    ELSE
        LET gid == <<"gid", h.zha_next>> IN
        [hs |-> [h EXCEPT !.zha_groups = Put(@, gid, member_native_ids),
                          !.zha_names = Put(@, name, gid),
                          !.zha_next = IF h.zha_next + 1 > MANAGED_GROUP_ID_END
                                          THEN MANAGED_GROUP_ID_START
                                          ELSE h.zha_next + 1],
         id |-> gid]

async_create_capability_groups(h, base_name, members_by_capability) ==
    LET caps == {c \in Capabilities : members_by_capability[c] # {}}
        subs == {SubGroupKey(base_name, c) : c \in caps}
    IN  [hs |-> [h EXCEPT
                    !.zw_caps = Put(@, base_name, caps),
                    !.zw_groups = [k \in DOMAIN @ \cup subs |->
                                      IF k \in subs THEN members_by_capability[k[4]]
                                      ELSE @[k]]],
         id |-> base_name]

\* async_delete_group, the call not raising.
async_delete_group(h, protocol, group_id) ==
    IF protocol = PROTOCOL_ZWAVE_JS THEN
        LET subs == IF group_id \in DOMAIN h.zw_caps
                        THEN {SubGroupKey(group_id, c) : c \in h.zw_caps[group_id]}
                        ELSE {}
        IN  [h EXCEPT !.zw_groups = [k \in DOMAIN @ \ ({group_id} \cup subs) |-> @[k]],
                      !.zw_caps = Drop(@, group_id)]
    ELSE IF protocol = PROTOCOL_ZIGBEE2MQTT THEN
        [h EXCEPT !.z2m_groups = Drop(@, group_id)]
    ELSE
        [h EXCEPT !.zha_groups = Drop(@, group_id),
                  !.zha_names = [n \in {x \in DOMAIN @ : @[x] # group_id} |-> @[n]],
                  !.scenes = {s \in @ : ~(s[1] = PROTOCOL_ZHA /\ s[2] = group_id)}]

\* async_store_scene / async_remove_scene, the call not raising.  The Z-Wave
\* variant programs the nodes it finds in its group table.
async_store_scene(h, protocol, group_id, scene_id) ==
    [h EXCEPT !.scenes = @ \cup {<<protocol, group_id, scene_id>>}]

async_remove_scene(h, protocol, group_id, scene_id) ==
    IF protocol = PROTOCOL_ZWAVE_JS /\ group_id \notin DOMAIN h.zw_groups THEN h
    ELSE [h EXCEPT !.scenes = @ \ {<<protocol, group_id, scene_id>>}]


vars == <<groupings, loaded, enabled_protocols, handlers, mappings,
          managed_resources, scene_id_counter, hs, persisted, started,
          sync_pending, tasks, lastProv, lastCleanup, lastSync, lastDispatch, events,
          setups, allocated, lastReconcile, listeners, stopping, window, info, options, limits,
                   clock, lastCall, zha>>

\* What the lifecycle and reconciliation steps write and the provisioning
\* and dispatch steps leave alone.
aux == <<allocated, lastReconcile, listeners, stopping, window, info, options, limits,
                   clock, lastCall, zha>>

NoKey == <<"", "">>
NoProv ==
    [key |-> NoKey, type |-> "", members |-> {}, by |-> <<>>, calls |-> {},
     failed |-> {}, handlers |-> {}, zw_groups |-> <<>>,
     mapping |-> GroupMapping(NoKey, "")]
NoDispatch ==
    [called |-> FALSE, entity_id |-> <<>>, area_id |-> <<>>, floor_id |-> <<>>,
     label_id |-> <<>>, fails |-> {}, handled |-> FALSE, raised |-> FALSE,
     issued |-> <<>>, mappings |-> <<>>, handlers |-> {}]
NoLoc ==
    [key |-> NoKey, type |-> "", members |-> {}, by |-> <<>>, todo |-> <<>>,
     mapping |-> GroupMapping(NoKey, ""), scene_id |-> 0, attempt |-> 0,
     calls |-> {}, failed |-> {}]
NoCleanup ==
    [key |-> NoKey, refs |-> {}, raised |-> {}, done |-> FALSE, hs |-> NewHandlerState]
\* What an async_sync_all run left: the platform's groupings, the handlers,
\* the tables.  failed: the handler calls that raised in a pass of the run;
\* start: the groupings when the run began.
NoSnapshot ==
    [groupings |-> <<>>, handlers |-> {}, mappings |-> <<>>,
     managed_resources |-> <<>>, failed |-> {}, start |-> <<>>]
\* runs: async_sync_all runs that ended since the entry was set up (2: two or
\* more); start: the groupings when the run that began last began; failed:
\* the calls that raised since then; prev, cur: what the last two runs left.
NoSync == [runs |-> 0, start |-> <<>>, failed |-> {}, prev |-> NoSnapshot, cur |-> NoSnapshot]
\* No handler call was made.
NoCall ==
    [op |-> "none", protocol |-> "", name |-> <<>>, members |-> {}, id |-> <<>>,
     raised |-> FALSE, again |-> FALSE, calls |-> 0, before |-> <<>>, domain |-> "", service |-> "", data |-> <<>>,
     sent |-> <<>>]
\* ZHAHandler.__init__ (zha.py 45-53), and the ids of the groups the gateway
\* holds.
NewZHAHandler ==
    [groups |-> <<>>, group_name_to_id |-> <<>>, next_group_id |-> 0,
     initialized |-> FALSE, gateway |-> {}]
NoReconcile ==
    [n |-> 0, handlers |-> {}, reported |-> {}, managed |-> {}, deleted |-> <<>>,
     raised |-> {}]
NoWindow == [calls |-> 0, ran |-> 0]
EmptyStore ==
    [present |-> FALSE, scene_id_counter |-> SCENE_ID_START, mappings |-> <<>>,
     managed_resources |-> [k \in Keys |-> {}]]

\* The part of the state a coroutine reads and writes.
World ==
    [groupings |-> groupings, handlers |-> handlers, mappings |-> mappings,
     managed_resources |-> managed_resources,
     scene_id_counter |-> scene_id_counter, hs |-> hs, persisted |-> persisted,
     started |-> started, lastProv |-> lastProv, lastCleanup |-> lastCleanup,
     lastSync |-> lastSync]

\* ----------------------------------------------------- orchestrator helpers
\* async_cleanup of every handler: what the handlers track locally is
\* cleared; the groups of the ZHA gateway stay.
async_cleanup(h) ==
    [h EXCEPT !.zw_groups = <<>>, !.zw_caps = <<>>, !.z2m_groups = <<>>]

_generate_group_name(ha_entity_id, protocol) == <<"ha", ha_entity_id, protocol>>

\* The allocator wrapping one id early: SCENE_ID_MAX is never handed out.
_allocate_scene_id_wraps_early(counter) ==
    [scene_id |-> counter,
     counter |-> IF counter + 1 >= SCENE_ID_MAX THEN SCENE_ID_START ELSE counter + 1]

\* _allocate_scene_id: the id returned and the counter afterwards.
_allocate_scene_id(counter) ==
    [scene_id |-> counter,
     counter |-> IF counter + 1 > SCENE_ID_MAX THEN SCENE_ID_START ELSE counter + 1]

\* _async_save_state: every mapping is stamped with the time of the save;
\* the blob handed to the store.
_async_save_state(w) ==
    [w EXCEPT
        !.mappings = [k \in DOMAIN @ |-> [@[k] EXCEPT !.last_synced = Now]],
        !.persisted =
            [present |-> TRUE, scene_id_counter |-> w.scene_id_counter,
             mappings |-> [k \in DOMAIN w.mappings |->
                            to_dict([w.mappings[k] EXCEPT !.last_synced = Now])],
             managed_resources |-> w.managed_resources]]

\* _async_load_state
_async_load_state(w) ==
    IF ~w.persisted.present THEN w
    ELSE [w EXCEPT
            !.scene_id_counter = w.persisted.scene_id_counter,
            !.mappings = [k \in DOMAIN w.mappings \cup DOMAIN w.persisted.mappings |->
                            IF k \in DOMAIN w.persisted.mappings
                                THEN from_dict(w.persisted.mappings[k])
                                ELSE w.mappings[k]],
            !.managed_resources = w.persisted.managed_resources]

\* HandlerRegistry.get_available_handlers filtered by the enabled protocols
\* (_async_setup_handlers).
get_available_handlers(components) ==
    {p \in Protocols :
        \/ p = PROTOCOL_ZWAVE_JS /\ "zwave_js" \in components
        \/ p = PROTOCOL_ZIGBEE2MQTT /\ "mqtt" \in components
        \/ p = PROTOCOL_ZHA /\ "zha" \in components}
_async_setup_handlers(enabled, components) ==
    get_available_handlers(components) \cap enabled

\* The member entity set a provisioning routine resolves for a key
\* (_provision_group, _get_scene_config, _provision_area/_floor/_label).
ResolveMembers(w, key) ==
    IF key \in Keys /\ w.groupings[key].exists THEN w.groupings[key].members ELSE {}

\* ------------------------------------------- _create_zwave_capability_groups
\* orchestrator.py 830-843: members per capability and the ungrouped entities.
members_by_capability(entities) ==
    [c \in Capabilities |->
        {e.native_id : e \in {x \in entities : x.capability = c /\ x.native_id # "None"}}]
ungrouped_by_capability(entities) ==
    {e.entity_id : e \in {x \in entities : x.capability = "None"}}

_create_zwave_capability_groups(h, group_name, entities) ==
    LET r == async_create_capability_groups(h, group_name, members_by_capability(entities))
    IN  [hs |-> r.hs, id |-> r.id, ungrouped |-> ungrouped_by_capability(entities)]

\* ------------------------------------------------------------ coroutines
\* A coroutine in flight: the routines it still has to run (ops), the routine
\* it is in (st: "idle", "cleanup", "prov", "done"), the locals of that
\* routine, and the handler/store call it is suspended at (call: "none" for a
\* coroutine that has not run yet, "create", "store", "del", "save").
\* A context c pairs the orchestrator's world w with the coroutine t running.
Op(op, key) == [op |-> op, key |-> key]
NewTask(kind, key, had, ops) ==
    [kind |-> kind, key |-> key, had |-> had, ops |-> ops, st |-> "idle",
     dels |-> {}, loc |-> NoLoc, call |-> "none"]
Ctx(w, t) == [w |-> w, t |-> t]

NoRef == GroupResource("", <<>>)

\* _provision_native_scene 593: max_retries.
max_retries == 3

\* The coroutine suspends at a handler call; calls keeps the calls it made.
Await(c, call, made) ==
    [c EXCEPT !.t.call = call, !.t.loc.calls = @ \cup made]

\* A fallback that forgets the members.
FallBackToUngrouped_dropping(c, protocol) == [c EXCEPT !.t.loc.todo = Tail(@)]

\* orchestrator.py 754 / 550 / 560: the members go to ungrouped_entities.
FallBackToUngrouped(c, protocol) ==
    [c EXCEPT !.t.loc.mapping.ungrouped_entities =
                    @ \cup {e.entity_id : e \in c.t.loc.by[protocol]},
              !.t.loc.todo = Tail(@)]

\* A pass that creates a native group for a single member too.
GroupBranch_always_create(protocol, n) ==
    IF protocol = PROTOCOL_ZWAVE_JS /\ n > 1 THEN "capability_groups" ELSE "create_group"

\* orchestrator.py 763-775: what a group pass does for a protocol with n members.
GroupBranch(protocol, n) ==
    IF protocol = PROTOCOL_ZWAVE_JS /\ n > 1 THEN "capability_groups"
    ELSE IF n > 1 THEN "create_group"
    ELSE "single"

\* A scene pass that ignores the member count.
SceneBranch_any_count(supports, n) == supports /\ n >= 1

\* orchestrator.py 554: whether a scene pass creates a native scene.
SceneBranch(supports, n) == supports /\ n > 1

\* A NativeGroupRef that tracks the ungroupable entities too.
GroupedEntities_unfiltered(entities, ungrouped_from_protocol) == entities

\* orchestrator.py 782-797: the entities tracked in the NativeGroupRef.
GroupedEntities(entities, ungrouped_from_protocol) ==
    {e \in entities : e.entity_id \notin ungrouped_from_protocol}

\* The result of a create call: handler state, id returned, entities left out.
Created(r) == [hs |-> r.hs, id |-> r.id, ungrouped |-> {}]
NotCreated(h) == [hs |-> h, id |-> <<>>, ungrouped |-> {}]

GroupRefOf(key, protocol, native_group_id, grouped) ==
    NativeGroupRef(protocol, native_group_id, _generate_group_name(key, protocol),
                   {e.entity_id : e \in grouped}, {e.native_id : e \in grouped})

\* orchestrator.py 777-803: record the native group of one protocol.
RecordNativeGroup(c, protocol, res) ==
    [c EXCEPT
        !.w.hs = res.hs,
        !.w.managed_resources[c.t.loc.key] =
            IF res.id # <<>> THEN @ \cup {GroupResource(protocol, res.id)} ELSE @,
        !.t.loc.mapping.ungrouped_entities = @ \cup res.ungrouped,
        !.t.loc.mapping.native_groups =
            Put(@, protocol,
                GroupRefOf(c.t.loc.key, protocol, res.id,
                           GroupedEntities(c.t.loc.by[protocol], res.ungrouped))),
        !.t.loc.todo = Tail(@),
        !.t.call = "none"]

\* orchestrator.py 610-620: record the native scene of one protocol.
RecordNativeScene(c, protocol) ==
    [c EXCEPT
        !.w.managed_resources[c.t.loc.key] =
            @ \cup {GroupResource(protocol, _generate_group_name(c.t.loc.key, protocol)),
                    SceneResource(protocol, _generate_group_name(c.t.loc.key, protocol),
                                  c.t.loc.scene_id)},
        !.t.loc.mapping.native_scenes =
            Put(@, protocol,
                NativeSceneRef(protocol, _generate_group_name(c.t.loc.key, protocol),
                               c.t.loc.scene_id,
                               {e.entity_id : e \in c.t.loc.by[protocol]})),
        !.t.loc.todo = Tail(@),
        !.t.call = "none"]

\* An except branch around the whole protocol loop: the first failure ends
\* the loop.
RecordSyncError_ending_loop(c, err) ==
    [c EXCEPT !.t.loc.mapping.sync_error = err,
              !.t.loc.failed = @ \cup {Head(c.t.loc.todo)},
              !.t.loc.todo = <<>>,
              !.t.call = "none"]

\* orchestrator.py 805-809 / 622-624: the except branch.
RecordSyncError(c, err) ==
    [c EXCEPT !.t.loc.mapping.sync_error = err,
              !.t.loc.failed = @ \cup {Head(c.t.loc.todo)},
              !.t.loc.todo = Tail(@),
              !.t.call = "none"]

\* orchestrator.py 811-812 / 562-563: store the mapping and save.
StoreMapping(c) ==
    Ctx(_async_save_state(
            [c.w EXCEPT !.mappings = Put(@, c.t.loc.key, c.t.loc.mapping),
                        !.lastSync.failed =
                            @ \cup {<<c.t.loc.key, p>> : p \in c.t.loc.failed},
                        !.lastProv = [key |-> c.t.loc.key, type |-> c.t.loc.type,
                                      members |-> c.t.loc.members, by |-> c.t.loc.by,
                                      calls |-> c.t.loc.calls,
                                      failed |-> c.t.loc.failed,
                                      handlers |-> c.w.handlers,
                                      zw_groups |-> c.w.hs.zw_groups,
                                      mapping |-> c.t.loc.mapping]]),
        [c.t EXCEPT !.st = "idle", !.loc = NoLoc, !.call = "save"])

\* _provision_native_scene 575-579: the group is created first.  The Z-Wave
\* handler's create does not suspend; the coroutine goes on to store_scene.
_provision_native_scene(c, protocol) ==
    IF protocol = PROTOCOL_ZWAVE_JS THEN
        Await([c EXCEPT !.w.hs = async_create_group(
                            @, protocol, _generate_group_name(c.t.loc.key, protocol),
                            {e.native_id : e \in c.t.loc.by[protocol]}).hs,
                        !.t.loc.attempt = 1],
              "store", {<<"create_group", protocol>>, <<"store_scene", protocol>>})
    ELSE Await(c, "create", {<<"create_group", protocol>>})

\* _provision_scene 547-560: one iteration of the protocol loop.
_provision_scene(c, protocol) ==
    IF protocol \notin c.w.handlers THEN FallBackToUngrouped(c, protocol)
    ELSE IF SceneBranch(async_supports_native_scenes(protocol),
                        Cardinality(c.t.loc.by[protocol]))
        THEN _provision_native_scene(c, protocol)
    ELSE FallBackToUngrouped(c, protocol)

\* _provision_entity_list 751-803: one iteration of the protocol loop, up to
\* the handler call it suspends at.
ProvisionBranch(c, protocol, branch) ==
    IF branch = "capability_groups" THEN
        Await(RecordNativeGroup(c, protocol,
                    _create_zwave_capability_groups(
                        c.w.hs, _generate_group_name(c.t.loc.key, protocol),
                        c.t.loc.by[protocol])),
              "none", {<<"create_capability_groups", protocol>>})
    ELSE IF branch = "create_group" THEN
        Await(c, "create", {<<"create_group", protocol>>})
    ELSE RecordNativeGroup(c, protocol, NotCreated(c.w.hs))

_provision_entity_list(c, protocol) ==
    IF protocol \notin c.w.handlers THEN FallBackToUngrouped(c, protocol)
    ELSE ProvisionBranch(c, protocol,
                         GroupBranch(protocol, Cardinality(c.t.loc.by[protocol])))

\* The next step of a provisioning pass.
ProvNext(c) ==
    IF c.t.loc.todo = <<>> THEN StoreMapping(c)
    ELSE IF c.t.loc.type = GROUPING_TYPE_SCENE
        THEN _provision_scene(c, Head(c.t.loc.todo))
    ELSE _provision_entity_list(c, Head(c.t.loc.todo))

\* _provision_entity_list 745-748: the locals of a pass.
NewPass(key, members, by) ==
    [NoLoc EXCEPT !.key = key, !.type = key[1], !.members = members, !.by = by,
                  !.mapping = GroupMapping(key, key[1]),
                  !.todo = SelectSeq(ProtocolOrder, LAMBDA p : p \in DOMAIN by)]
PassFor(c, key, members) ==
    IF members = {}
        THEN [c EXCEPT !.w.lastProv = [NoProv EXCEPT !.key = key, !.type = key[1],
                                                     !.handlers = c.w.handlers]]
    ELSE [c EXCEPT !.t.st = "prov",
                   !.t.loc = NewPass(key, members, classify_entities(members))]

\* _provision_group / _provision_area / _provision_floor / _provision_label:
\* resolve the members; nothing to do without members.
BeginEntityList(c, key) == PassFor(c, key, ResolveMembers(c.w, key))

\* _provision_scene 523-545: as above, and a scene id is allocated.
WithSceneId(c, a) ==
    IF c.t.st # "prov" THEN c
    ELSE [c EXCEPT !.w.scene_id_counter = a.counter, !.t.loc.scene_id = a.scene_id]
BeginScene(c, key) ==
    WithSceneId(BeginEntityList(c, key), _allocate_scene_id(c.w.scene_id_counter))

\* _cleanup_resources 1106-1115: pop the entry; the references whose handler
\* is active are the calls to make.
_cleanup_resources(c, key) ==
    LET calls == {r \in c.w.managed_resources[key] : r.protocol \in c.w.handlers} IN
    [c EXCEPT !.w.managed_resources[key] = {},
              !.w.lastCleanup = [key |-> key, refs |-> calls, raised |-> {},
                                 done |-> calls = {}, hs |-> c.w.hs],
              !.t.st = "cleanup",
              !.t.dels = calls]

\* async_sync_all 1051-1084: the types whose option is set, in this order,
\* then the save.
SyncOrder ==
    <<GROUPING_TYPE_GROUP, GROUPING_TYPE_SCENE, GROUPING_TYPE_AREA,
      GROUPING_TYPE_FLOOR, GROUPING_TYPE_LABEL>>
SyncTypeOp(type) == Op("sync_type", <<type, "">>)
RECURSIVE SyncTypeOps(_, _)
SyncTypeOps(opts, i) ==
    IF i > Len(SyncOrder) THEN <<>>
    ELSE (IF SyncOrder[i] \in opts THEN <<SyncTypeOp(SyncOrder[i])>> ELSE <<>>)
            \o SyncTypeOps(opts, i + 1)
SyncAllOpsFor(opts) ==
    <<Op("sync_all", NoKey)>> \o SyncTypeOps(opts, 1) \o <<Op("save", NoKey)>>

\* What a run of async_sync_all leaves behind.
SyncSnapshot(w) ==
    [groupings |-> w.groupings, handlers |-> w.handlers, mappings |-> w.mappings,
     managed_resources |-> w.managed_resources, failed |-> w.lastSync.failed,
     start |-> w.lastSync.start]
\* async_sync_all is entered / reaches its save.
SyncBegins(w) == [w EXCEPT !.lastSync.start = w.groupings, !.lastSync.failed = {}]
SyncEnds(w) ==
    [w EXCEPT !.lastSync.runs = IF @ < 2 THEN @ + 1 ELSE @,
              !.lastSync.prev = w.lastSync.cur,
              !.lastSync.cur = SyncSnapshot(w)]
SyncAllOps == SyncAllOpsFor(options)

RECURSIVE SetToSeq(_)
SetToSeq(S) ==
    IF S = {} THEN <<>>
    ELSE LET x == CHOOSE y \in S : TRUE IN <<x>> \o SetToSeq(S \ {x})

ProvisionOps(keys) == [i \in 1..Len(keys) |-> Op("provision", keys[i])]

\* The routine a coroutine enters next.
EnterOp(c, o) ==
    CASE o.op = "cleanup" -> _cleanup_resources(c, o.key)
      [] o.op = "provision" ->
            IF o.key[1] = GROUPING_TYPE_SCENE THEN BeginScene(c, o.key)
            ELSE BeginEntityList(c, o.key)
      [] o.op = "pop" -> [c EXCEPT !.w.mappings = Drop(@, o.key)]
      [] o.op = "sync_all" -> [c EXCEPT !.w = SyncBegins(@)]
      [] o.op = "save" ->
            [c EXCEPT !.w = SyncEnds(_async_save_state(@)), !.t.call = "save"]
      [] o.op = "sync_type" ->
            [c EXCEPT !.t.ops =
                ProvisionOps(SetToSeq({k \in KeysOfType(o.key[1]) :
                                            c.w.groupings[k].exists})) \o @]
      [] OTHER -> [c EXCEPT !.w.started = TRUE]
BeginOp(c) == EnterOp([c EXCEPT !.t.ops = Tail(@)], Head(c.t.ops))

\* The code of a coroutine up to its next suspension.
SyncStep(c) ==
    IF c.t.st = "cleanup" THEN
        IF c.t.dels = {} THEN [c EXCEPT !.t.st = "idle"]
        ELSE [c EXCEPT !.t.call = "del"]
    ELSE IF c.t.st = "prov" THEN ProvNext(c)
    ELSE IF c.t.ops = <<>> THEN [c EXCEPT !.t.st = "done"]
    ELSE BeginOp(c)

RECURSIVE RunSync(_)
RunSync(c) ==
    IF c.t.call # "none" \/ c.t.st = "done" THEN c ELSE RunSync(SyncStep(c))

\* ------------------------------------------------- resuming a suspended call
\* The outcomes the suspended call of a coroutine can have: "ok" (returns) or
\* "fail" (raises into the orchestrator).  ZHA converts the id with int().
Outcomes(t, ref) ==
    CASE t.call = "create" ->
            IF CanRaise("create", Head(t.loc.todo)) THEN {"ok", "fail"} ELSE {"ok"}
      [] t.call = "store" ->
            IF Head(t.loc.todo) = PROTOCOL_ZHA
                    /\ ~IsNumericId(_generate_group_name(t.loc.key, PROTOCOL_ZHA))
                THEN {"fail"}
            ELSE IF CanRaise("store", Head(t.loc.todo)) THEN {"ok", "fail"}
            ELSE {"ok"}
      [] t.call = "del" ->
            IF ref.protocol = PROTOCOL_ZHA
                THEN (IF IsNumericId(ref.id) THEN {"ok"} ELSE {"fail"})
            ELSE IF CanRaise("del", ref.protocol) THEN {"ok", "fail"}
            ELSE {"ok"}
      [] OTHER -> {"ok"}

\* create_group returns or raises (_provision_entity_list 769-772,
\* _provision_native_scene 579).
CreateReturned(c, protocol, oc) ==
    IF oc = "fail" THEN RecordSyncError(c, "create_group")
    ELSE IF c.t.loc.type = GROUPING_TYPE_SCENE THEN
        Await([c EXCEPT !.w.hs = async_create_group(
                            @, protocol, _generate_group_name(c.t.loc.key, protocol),
                            {e.native_id : e \in c.t.loc.by[protocol]}).hs,
                        !.t.loc.attempt = 1],
              "store", {<<"store_scene", protocol>>})
    ELSE RecordNativeGroup(c, protocol,
            Created(async_create_group(
                c.w.hs, protocol, _generate_group_name(c.t.loc.key, protocol),
                {e.native_id : e \in c.t.loc.by[protocol]})))

\* A store_scene that is tried a fourth time.
StoreReturned_fourth_attempt(c, protocol, oc) ==
    IF oc = "ok" THEN
        RecordNativeScene(
            [c EXCEPT !.w.hs = async_store_scene(
                        @, protocol, _generate_group_name(c.t.loc.key, protocol),
                        c.t.loc.scene_id)],
            protocol)
    ELSE IF c.t.loc.attempt < max_retries + 1 THEN [c EXCEPT !.t.loc.attempt = @ + 1]
    ELSE RecordSyncError(c, "store_scene")

\* store_scene returns or raises (_provision_native_scene 591-608).
StoreReturned(c, protocol, oc) ==
    IF oc = "ok" THEN
        RecordNativeScene(
            [c EXCEPT !.w.hs = async_store_scene(
                        @, protocol, _generate_group_name(c.t.loc.key, protocol),
                        c.t.loc.scene_id)],
            protocol)
    ELSE IF c.t.loc.attempt < max_retries THEN [c EXCEPT !.t.loc.attempt = @ + 1]
    ELSE RecordSyncError(c, "store_scene")

\* delete_group / remove_scene returns or raises (_cleanup_resources 1117-1123).
HandlersAfter(h, oc, ref) ==
    IF oc = "fail" THEN h
    ELSE IF ref.type = "group" THEN async_delete_group(h, ref.protocol, ref.id)
    ELSE async_remove_scene(h, ref.protocol, ref.id, ref.scene_id)
DeleteReturned(c, oc, ref) ==
    [c EXCEPT !.w.hs = HandlersAfter(@, oc, ref),
              !.w.lastCleanup = [@ EXCEPT
                    !.raised = IF oc = "fail" THEN @ \cup {ref} ELSE @,
                    !.done = (c.t.dels \ {ref} = {}),
                    !.hs = HandlersAfter(c.w.hs, oc, ref)],
              !.t.dels = @ \ {ref},
              !.t.call = "none"]

\* The suspended call returns (or raises) and the coroutine takes the result.
ResumeCall(c, oc, ref) ==
    CASE c.t.call = "create" -> CreateReturned(c, Head(c.t.loc.todo), oc)
      [] c.t.call = "store" -> StoreReturned(c, Head(c.t.loc.todo), oc)
      [] c.t.call = "del" -> DeleteReturned(c, oc, ref)
      [] OTHER -> [c EXCEPT !.t.call = "none"]

\* ----------------------------------------------------------------- dispatch
Command(kind, protocol, group_id, native_ids, entity_id, scene_id) ==
    [kind |-> kind, protocol |-> protocol, group_id |-> group_id,
     native_ids |-> native_ids, entity_id |-> entity_id, scene_id |-> scene_id]

\* Whether the command raises: a handler whose transport fails (fails), or
\* ZHA's int() of a group name.
Raises(cmd, fails) ==
    \/ cmd.protocol \in fails
    \/ cmd.kind = "recall_scene" /\ cmd.protocol = PROTOCOL_ZHA /\ ~IsNumericId(cmd.group_id)

\* A gather without return_exceptions: the first exception ends the wait and
\* is raised to the caller.
gather_first_exception(results) ==
    IF \A i \in DOMAIN results : ~results[i].raised
        THEN [done |-> results, raised |-> FALSE]
    ELSE [done |-> SubSeq(results, 1,
                          CHOOSE i \in DOMAIN results :
                              /\ results[i].raised
                              /\ \A j \in 1..(i - 1) : ~results[j].raised),
          raised |-> TRUE]

\* asyncio.gather(*tasks, return_exceptions=True): every task runs to its end,
\* nothing is raised to the caller.
gather(results) == [done |-> results, raised |-> FALSE]

ServiceCalls(mapping) ==
    LET es == SetToSeq(mapping.ungrouped_entities) IN
    [i \in 1..Len(es) |-> Command("service_call", "platform", <<>>, {}, es[i], 0)]

WithOutcome(cmds, fails) ==
    [i \in 1..Len(cmds) |-> [cmd |-> cmds[i], raised |-> Raises(cmds[i], fails)]]

_dispatch_scene(active, mapping, fails) ==
    LET ps == SelectSeq(ProtocolOrder,
                LAMBDA p : p \in DOMAIN mapping.native_scenes /\ p \in active)
        recalls == [i \in 1..Len(ps) |->
                      Command("recall_scene", ps[i], mapping.native_scenes[ps[i]].group_name,
                              {}, <<>>, mapping.native_scenes[ps[i]].scene_id)]
        g == gather(WithOutcome(recalls \o ServiceCalls(mapping), fails))
    IN  [cmds |-> g.done, raised |-> g.raised]

_dispatch_group(active, mapping, fails) ==
    LET ps == SelectSeq(ProtocolOrder,
                LAMBDA p : p \in DOMAIN mapping.native_groups /\ p \in active)
        native == [i \in 1..Len(ps) |->
                     LET group_ref == mapping.native_groups[ps[i]] IN
                     IF group_ref.group_id # <<>>
                        THEN Command("send_group_command", ps[i], group_ref.group_id,
                                     {}, <<>>, 0)
                     ELSE Command("send_multicast", ps[i], <<>>,
                                  group_ref.member_native_ids, <<>>, 0)]
        g == gather(WithOutcome(native \o ServiceCalls(mapping), fails))
    IN  [cmds |-> g.done, raised |-> g.raised]

\* A dispatch that does not look at label_id.
DispatchTargets_without_labels(data) ==
    data.entity_id
    \o [i \in 1..Len(data.area_id) |-> <<GROUPING_TYPE_AREA, data.area_id[i]>>]
    \o [i \in 1..Len(data.floor_id) |-> <<GROUPING_TYPE_FLOOR, data.floor_id[i]>>]

\* async_dispatch 882-900, 903/923/936/949: the mapping keys the call names.
DispatchTargets(data) ==
    data.entity_id
    \o [i \in 1..Len(data.area_id) |-> <<GROUPING_TYPE_AREA, data.area_id[i]>>]
    \o [i \in 1..Len(data.floor_id) |-> <<GROUPING_TYPE_FLOOR, data.floor_id[i]>>]
    \o [i \in 1..Len(data.label_id) |-> <<GROUPING_TYPE_LABEL, data.label_id[i]>>]

RECURSIVE Flatten(_, _)
Flatten(branches, i) ==
    IF i > Len(branches) THEN <<>>
    ELSE [j \in 1..Len(branches[i].cmds) |->
            [target |-> branches[i].target, cmd |-> branches[i].cmds[j].cmd,
             raised |-> branches[i].cmds[j].raised]]
         \o Flatten(branches, i + 1)

async_dispatch(w, data, fails) ==
    LET targets == DispatchTargets(data)
        live == SelectSeq([i \in 1..Len(targets) |-> [i |-> i, key |-> targets[i]]],
                          LAMBDA x : x.key \in DOMAIN w.mappings)
        branches == [n \in 1..Len(live) |->
                        LET mapping == w.mappings[live[n].key]
                            b == IF mapping.ha_entity_type = GROUPING_TYPE_SCENE
                                    THEN _dispatch_scene(w.handlers, mapping, fails)
                                 ELSE _dispatch_group(w.handlers, mapping, fails)
                        IN  [target |-> live[n].i, cmds |-> b.cmds, raised |-> b.raised]]
        g == gather(branches)
    IN  [called |-> TRUE, entity_id |-> data.entity_id, area_id |-> data.area_id,
         floor_id |-> data.floor_id, label_id |-> data.label_id, fails |-> fails,
         handled |-> Len(live) > 0, raised |-> g.raised,
         issued |-> Flatten(g.done, 1), mappings |-> w.mappings,
         handlers |-> w.handlers]

\* ------------------------------------------------------------ environment
\* The platform state a behaviour starts from: nothing defined yet, or one
\* grouping of each type (the second scene is not defined).
InitialMembers(k) ==
    CASE k[1] = GROUPING_TYPE_GROUP ->
            {<<"light", "zc">>, <<"light", "zd">>, <<"climate", "zx">>, <<"light", "m1">>}
      [] k[1] = GROUPING_TYPE_SCENE ->
            {<<"light", "m1">>, <<"light", "m2">>, <<"light", "h1">>, <<"switch", "h2">>,
             <<"light", "u">>}
      [] k[1] = GROUPING_TYPE_AREA -> {<<"light", "zd">>, <<"light", "zn">>, <<"light", "v">>}
      [] k[1] = GROUPING_TYPE_FLOOR -> {<<"light", "zc">>}
      [] OTHER ->
            {<<"light", "m1">>, <<"light", "m2">>, <<"light", "h1">>, <<"switch", "h2">>,
             <<"light", "u">>}
InitialGroupings ==
    { [k \in Keys |-> [exists |-> FALSE, members |-> {}]],
      [k \in Keys |-> IF k \in EventKeys
                        THEN [exists |-> TRUE, members |-> InitialMembers(k)]
                        ELSE [exists |-> FALSE, members |-> {}]] }

\* options[CONF_ENABLED_PROTOCOLS] and hass.config.components of a setup.
SetupChoice(enabled, components) == [enabled |-> enabled, components |-> components]
SetupChoices ==
    { SetupChoice(Protocols, {"zwave_js", "mqtt", "zha"}),
      SetupChoice({PROTOCOL_ZWAVE_JS, PROTOCOL_ZHA}, {"zwave_js", "mqtt"}) }

\* Service data of a dispatch call and the transports that fail during it.
DispatchData(entity_id, area_id, floor_id, label_id) ==
    [entity_id |-> entity_id, area_id |-> area_id, floor_id |-> floor_id,
     label_id |-> label_id]
DispatchCall(data, fails) == [data |-> data, fails |-> fails]
DispatchChoices ==
    { DispatchCall(DispatchData(<<<<GROUPING_TYPE_GROUP, "g1">>>>, <<>>, <<>>, <<>>), {}),
      DispatchCall(DispatchData(<<<<GROUPING_TYPE_SCENE, "s1">>,
                                  <<GROUPING_TYPE_GROUP, "g1">>>>, <<>>, <<>>, <<>>),
                   {PROTOCOL_ZIGBEE2MQTT}),
      DispatchCall(DispatchData(<<<<"light", "zc">>>>, <<>>, <<>>, <<>>), {}),
      DispatchCall(DispatchData(<<>>, <<"a1">>, <<"f1">>, <<"l1">>),
                   {PROTOCOL_ZWAVE_JS, "platform"}),
      DispatchCall(DispatchData(<<>>, <<>>, <<>>, <<"l1">>), {}) }

\* New handler objects: the in-memory group tables start empty; ZHA reads
\* its groups back from the gateway; the devices keep their scenes.
NewHandlers(h) ==
    [h EXCEPT !.zw_groups = <<>>, !.zw_caps = <<>>, !.z2m_groups = <<>>]

\* ------------------------------------------------------------------- Init
Init ==
    /\ clock = 1
    /\ groupings \in InitialGroupings
    /\ loaded = FALSE
    /\ enabled_protocols = Protocols
    /\ handlers = {}
    /\ mappings = <<>>
    /\ managed_resources = [k \in Keys |-> {}]
    /\ scene_id_counter = SCENE_ID_START
    /\ hs = NewHandlerState
    /\ persisted = EmptyStore
    /\ started = FALSE
    /\ sync_pending = FALSE
    /\ tasks = <<>>
    /\ lastProv = NoProv
    /\ lastCleanup = NoCleanup
    /\ lastSync = NoSync
    /\ lastDispatch = NoDispatch
    /\ events = 0
    /\ setups = 0
    /\ allocated = <<>>
    /\ lastReconcile = NoReconcile
    /\ listeners = 0
    /\ stopping = FALSE
    /\ window = NoWindow
    /\ limits = Limits
    /\ lastCall = NoCall
    /\ zha = NewZHAHandler
    /\ options = GroupingTypes
    /\ info = NoInfo

\* ----------------------------------------------------------------- actions
Commit(w, ts) ==
    /\ groupings' = w.groupings
    /\ handlers' = w.handlers
    /\ mappings' = w.mappings
    /\ managed_resources' = w.managed_resources
    /\ scene_id_counter' = w.scene_id_counter
    /\ hs' = w.hs
    /\ persisted' = w.persisted
    /\ started' = w.started
    /\ lastProv' = w.lastProv
    /\ lastCleanup' = w.lastCleanup
    /\ lastSync' = w.lastSync
    /\ tasks' = ts

\* The events the listeners are delivered: one more can arrive while
\* async_stop awaits the tasks it cancelled, the listeners still attached.
EventBudget == IF stopping THEN limits.events + 1 ELSE limits.events

\* A new coroutine: started eagerly it runs to its first suspension at once,
\* otherwise it waits for the event loop.
Start(c, eager) == IF eager THEN RunSync(c) ELSE c
Enqueue(c) == Commit(c.w, IF c.t.st = "done" THEN tasks ELSE Append(tasks, c.t))

\* _create_background_task
Spawn(w, t, eager) ==
    /\ Len(tasks) < limits.tasks
    /\ Enqueue(Start(Ctx(w, t), eager))

\* async_setup_entry: NativeGroupOrchestrator.__init__ and async_start.
SetupEntryWith(enabled, components, opts) ==
    /\ ~lastDispatch.called
    /\ ~loaded
    /\ setups < MaxSetups
    /\ tasks = <<>>
    /\ Enqueue(RunSync(Ctx(
            _async_load_state(
                [World EXCEPT
                    !.handlers = _async_setup_handlers(enabled, components),
                    !.mappings = <<>>,
                    !.managed_resources = [k \in Keys |-> {}],
                    !.scene_id_counter = SCENE_ID_START,
                    !.started = FALSE,
                    !.lastProv = NoProv,
                    !.lastCleanup = NoCleanup,
                    !.lastSync = NoSync,
                    !.hs = NewHandlers(@)]),
            NewTask("start", NoKey, FALSE,
                    SyncAllOpsFor(opts) \o <<Op("started", NoKey)>>))))
    /\ loaded' = TRUE
    /\ enabled_protocols' = enabled
    /\ sync_pending' = FALSE
    /\ listeners' = 1
    /\ window' = NoWindow
    /\ UNCHANGED <<limits, clock, lastCall, zha>>
    /\ options' = opts
    /\ UNCHANGED info
    /\ UNCHANGED <<lastDispatch, allocated, lastReconcile, stopping>>
    /\ setups' = setups + 1
    /\ UNCHANGED events

\* A setup with the options at their defaults: every grouping type enabled.
SetupEntry(enabled, components) == SetupEntryWith(enabled, components, GroupingTypes)

\* async_unload_entry / async_stop, with no coroutine in flight.
Unload ==
    /\ ~lastDispatch.called
    /\ loaded
    /\ tasks = <<>>
    /\ Commit([_async_save_state(World) EXCEPT !.started = FALSE,
                                               !.hs = async_cleanup(@)], <<>>)
    /\ loaded' = FALSE
    /\ sync_pending' = FALSE
    /\ listeners' = 0
    /\ window' = NoWindow
    /\ UNCHANGED <<limits, clock, lastCall, zha>>
    /\ UNCHANGED options
    /\ UNCHANGED info
    /\ UNCHANGED <<lastDispatch, allocated, lastReconcile, stopping>>
    /\ UNCHANGED <<enabled_protocols, events, setups>>

\* _on_state_changed: the coroutine the callback creates, if any.
StateChangedOps(k, old, new) ==
    IF ~new.exists THEN <<Op("cleanup", k), Op("pop", k)>>
    ELSE IF ~old.exists THEN <<Op("provision", k)>>
    ELSE IF k[1] = GROUPING_TYPE_GROUP /\ old.members # new.members
        THEN <<Op("cleanup", k), Op("provision", k)>>
    ELSE <<>>
StateChangedKind(old, new) ==
    IF ~new.exists THEN "deleted" ELSE IF ~old.exists THEN "created" ELSE "updated"

\* The platform writes, changes or removes the state of a group or scene and
\* fires state_changed.
StateChanged(k, ex, ms, eager) ==
    /\ ~lastDispatch.called
    /\ loaded
    /\ events < EventBudget
    /\ LET old == groupings[k]
           new == [exists |-> ex, members |-> IF ex THEN ms ELSE {}]
           w == [World EXCEPT !.groupings[k] = new]
           ops == IF k[1] \in options THEN StateChangedOps(k, old, new) ELSE <<>>
       IN  /\ new # old
           /\ IF ops = <<>>
                THEN eager /\ Commit(w, tasks)
                ELSE Spawn(w, NewTask(StateChangedKind(old, new), k,
                                      k \in DOMAIN mappings, ops), eager)
    /\ UNCHANGED <<lastDispatch, aux>>
    /\ events' = events + 1
    /\ UNCHANGED <<loaded, enabled_protocols, sync_pending, setups>>

\* _on_scene_changed: the custom scene event.
SceneChanged(k, action, eager) ==
    /\ ~lastDispatch.called
    /\ loaded
    /\ events < EventBudget
    /\ Spawn(World,
             NewTask(action, k, k \in DOMAIN mappings,
                     CASE action = "created" -> <<Op("provision", k)>>
                       [] action = "updated" -> <<Op("cleanup", k), Op("provision", k)>>
                       [] OTHER -> <<Op("cleanup", k), Op("pop", k)>>),
             eager)
    /\ UNCHANGED <<lastDispatch, aux>>
    /\ events' = events + 1
    /\ UNCHANGED <<loaded, enabled_protocols, sync_pending, setups>>

\* _on_membership_changed: the custom membership event.
MembershipChanged(k, eager) ==
    /\ ~lastDispatch.called
    /\ loaded
    /\ events < EventBudget
    /\ Spawn(World, NewTask("updated", k, k \in DOMAIN mappings,
                            <<Op("cleanup", k), Op("provision", k)>>), eager)
    /\ UNCHANGED <<lastDispatch, aux>>
    /\ events' = events + 1
    /\ UNCHANGED <<loaded, enabled_protocols, sync_pending, setups>>

\* self._mappings.pop(mapping_key, None)
PopMapping(c, k) == [c EXCEPT !.w.mappings = Drop(@, k)]

\* _on_area_registry_updated / _on_floor_registry_updated /
\* _on_label_registry_updated.  A registry entry is created without entities;
\* "remove" drops the mapping in the callback itself, after creating the
\* cleanup coroutine.
RegistryUpdated(k, action, eager) ==
    /\ ~lastDispatch.called
    /\ loaded
    /\ events < EventBudget
    /\ CASE k[1] \notin options ->
              /\ eager
              /\ (action = "create") = ~groupings[k].exists
              /\ Commit([World EXCEPT
                            !.groupings[k] =
                                IF action = "update" THEN @
                                ELSE [exists |-> action = "create", members |-> {}]],
                        tasks)
         [] action = "create" ->
              LET w == [World EXCEPT !.groupings[k] = [exists |-> TRUE, members |-> {}]]
              IN  /\ ~groupings[k].exists
                  /\ Spawn(w, NewTask("create", k, k \in DOMAIN mappings,
                                        <<Op("provision", k)>>), eager)
         [] action = "remove" ->
              /\ groupings[k].exists
              /\ Len(tasks) < limits.tasks
              /\ Enqueue(PopMapping(
                    Start(Ctx([World EXCEPT
                                !.groupings[k] = [exists |-> FALSE, members |-> {}]],
                              NewTask("remove", k, k \in DOMAIN mappings,
                                      <<Op("cleanup", k)>>)),
                          eager),
                    k))
         [] OTHER ->
              /\ groupings[k].exists
              /\ Spawn(World, NewTask("update", k, k \in DOMAIN mappings,
                                      <<Op("cleanup", k), Op("provision", k)>>), eager)
    /\ UNCHANGED <<lastDispatch, aux>>
    /\ events' = events + 1
    /\ UNCHANGED <<loaded, enabled_protocols, sync_pending, setups>>

\* _setup_listeners 228-239: the entity and device registry listeners are
\* attached when areas or labels are enabled.
RegistryListening ==
    GROUPING_TYPE_AREA \in options \/ GROUPING_TYPE_LABEL \in options

\* _on_entity_registry_updated / _on_device_registry_updated: an entity moves
\* into or out of an area, floor or label; the debouncer is scheduled.
EntityRegistryUpdated(k, ms) ==
    /\ ~lastDispatch.called
    /\ loaded
    /\ events < EventBudget
    /\ groupings[k].exists
    /\ groupings[k].members # ms
    /\ groupings' = [groupings EXCEPT ![k].members = ms]
    /\ sync_pending' = (sync_pending \/ RegistryListening)
    /\ window' = IF RegistryListening THEN [window EXCEPT !.calls = @ + 1] ELSE window
    /\ UNCHANGED <<limits, clock, lastCall, zha>>
    /\ UNCHANGED options
    /\ UNCHANGED info
    /\ UNCHANGED <<lastDispatch, allocated, lastReconcile, listeners, stopping>>
    /\ events' = events + 1
    /\ UNCHANGED <<loaded, enabled_protocols, handlers, mappings, managed_resources,
                   scene_id_counter, hs, persisted, started, tasks, lastProv, lastCleanup, lastSync, setups>>

\* The debouncer's cooldown ends: _async_process_sync_queue.
DebounceFire ==
    /\ ~lastDispatch.called
    /\ loaded
    /\ sync_pending
    /\ Spawn(World, NewTask("sync_all", NoKey, FALSE, SyncAllOps), TRUE)
    /\ sync_pending' = FALSE
    /\ window' = [calls |-> 0, ran |-> window.calls]
    /\ UNCHANGED <<limits, clock, lastCall, zha>>
    /\ UNCHANGED options
    /\ UNCHANGED info
    /\ UNCHANGED <<lastDispatch, allocated, lastReconcile, listeners, stopping>>
    /\ UNCHANGED <<loaded, enabled_protocols, events, setups>>

\* The sync_all service: async_sync_all.
SyncAll ==
    /\ ~lastDispatch.called
    /\ loaded
    /\ events < limits.events
    /\ Spawn(World, NewTask("sync_all", NoKey, FALSE, SyncAllOps), TRUE)
    /\ UNCHANGED <<lastDispatch, aux>>
    /\ events' = events + 1
    /\ UNCHANGED <<loaded, enabled_protocols, sync_pending, setups>>

\* The sync_entity service: async_sync_entity.
SyncEntity(k) ==
    /\ ~lastDispatch.called
    /\ loaded
    /\ events < limits.events
    /\ Spawn(World, NewTask("sync_entity", k, k \in DOMAIN mappings,
                            <<Op("cleanup", k), Op("provision", k)>>), TRUE)
    /\ UNCHANGED <<lastDispatch, aux>>
    /\ events' = events + 1
    /\ UNCHANGED <<loaded, enabled_protocols, sync_pending, setups>>

\* The dispatch service: async_dispatch on the tables as they are.
Dispatch(data, fails) ==
    /\ ~lastDispatch.called
    /\ loaded
    /\ lastDispatch' = async_dispatch(World, data, fails)
    /\ UNCHANGED <<groupings, loaded, enabled_protocols, handlers, mappings,
                   managed_resources, scene_id_counter, hs, persisted, started,
                   sync_pending, tasks, lastProv, lastCleanup, lastSync, events, setups, aux>>

Requeue(c, i) ==
    Commit(c.w,
           IF c.t.st = "done"
                THEN SubSeq(tasks, 1, i - 1) \o SubSeq(tasks, i + 1, Len(tasks))
                ELSE [tasks EXCEPT ![i] = c.t])

\* The event loop resumes coroutine i: its suspended call ends with outcome
\* oc (for a cleanup, the call for resource ref), and the coroutine runs to
\* its next suspension.
TaskStep(i, oc, ref) ==
    /\ ~lastDispatch.called
    /\ i \in 1..Len(tasks)
    /\ ref \in (IF tasks[i].call = "del" THEN tasks[i].dels ELSE {NoRef})
    /\ oc \in Outcomes(tasks[i], ref)
    /\ Requeue(RunSync(ResumeCall(Ctx(World, tasks[i]), oc, ref)), i)
    /\ UNCHANGED <<lastDispatch, aux>>
    /\ UNCHANGED <<loaded, enabled_protocols, sync_pending, events, setups>>

AllRefs ==
    {NoRef} \cup UNION {managed_resources[k] : k \in Keys}
            \cup UNION {tasks[i].dels : i \in 1..Len(tasks)}

Next ==
    \/ \E c \in SetupChoices : SetupEntry(c.enabled, c.components)
    \/ Unload
    \/ \E k \in StateKeys, ex \in BOOLEAN, ms \in MemberChoices, eager \in BOOLEAN :
            StateChanged(k, ex, ms, eager)
    \/ \E k \in KeysOfType(GROUPING_TYPE_SCENE) \cap EventKeys,
          action \in {"created", "updated", "deleted"}, eager \in BOOLEAN :
            SceneChanged(k, action, eager)
    \/ \E k \in KeysOfType(GROUPING_TYPE_GROUP), eager \in BOOLEAN :
            MembershipChanged(k, eager)
    \/ \E k \in RegistryKeys, action \in {"create", "remove", "update"},
          eager \in BOOLEAN :
            RegistryUpdated(k, action, eager)
    \/ \E k \in RegistryKeys, ms \in MemberChoices : EntityRegistryUpdated(k, ms)
    \/ DebounceFire
    \/ SyncAll
    \/ \E k \in EventKeys : SyncEntity(k)
    \/ \E c \in DispatchChoices : Dispatch(c.data, c.fails)
    \/ \E i \in 1..MaxTasks, oc \in {"ok", "fail"}, ref \in AllRefs : TaskStep(i, oc, ref)

Spec == Init /\ [][Next]_vars

\* ================================================================== claims
\* The mapping keys the observed dispatch call names, in the order the
\* routine visits them.
NamedKeys ==
    lastDispatch.entity_id
    \o [i \in 1..Len(lastDispatch.area_id) |-> <<"area", lastDispatch.area_id[i]>>]
    \o [i \in 1..Len(lastDispatch.floor_id) |-> <<"floor", lastDispatch.floor_id[i]>>]
    \o [i \in 1..Len(lastDispatch.label_id) |-> <<"label", lastDispatch.label_id[i]>>]

\* The commands the observed dispatch issued for its i-th named key.
IssuedFor(i) == {j \in DOMAIN lastDispatch.issued : lastDispatch.issued[j].target = i}

\* C1: async_dispatch returns true if and only if at least one named target
\* (an entity_id that is a mapping key, or an area/floor/label id whose key
\* is a mapping key) has a mapping when the call is made; when it returns
\* false it has issued no handler command and no platform service call.
C1_HandledIffTargetMapped ==
    lastDispatch.called =>
        /\ lastDispatch.handled <=> (\E i \in DOMAIN NamedKeys : NamedKeys[i] \in DOMAIN mappings)
        /\ ~lastDispatch.handled => lastDispatch.issued = <<>>

\* C1 happens: a call naming only a label id is handled and issues commands.
C1_Witness ==
    /\ lastDispatch.called
    /\ lastDispatch.entity_id = <<>>
    /\ lastDispatch.area_id = <<>>
    /\ lastDispatch.label_id # <<>>
    /\ lastDispatch.handled
    /\ lastDispatch.issued # <<>>

\* C2 (as claimed): for every named target with a mapping, one dispatch
\* issues exactly one platform service call per ungrouped entity and, for a
\* scene mapping, exactly one recall_scene per protocol present in
\* native_scenes; for a group/area/floor/label mapping, exactly one handler
\* command per protocol present in native_groups: send_group_command when
\* group_id is set, otherwise send_multicast to member_native_ids.
C2_OneCommandPerProtocol ==
    lastDispatch.called =>
        \A i \in DOMAIN NamedKeys :
            NamedKeys[i] \in DOMAIN mappings =>
                LET m == mappings[NamedKeys[i]]
                    cmd(j) == lastDispatch.issued[j].cmd
                IN  /\ \A e \in m.ungrouped_entities :
                            Cardinality({j \in IssuedFor(i) :
                                /\ cmd(j).kind = "service_call"
                                /\ cmd(j).entity_id = e}) = 1
                    /\ IF m.ha_entity_type = GROUPING_TYPE_SCENE
                        THEN \A p \in DOMAIN m.native_scenes :
                                /\ Cardinality({j \in IssuedFor(i) : cmd(j).protocol = p}) = 1
                                /\ \E j \in IssuedFor(i) :
                                        /\ cmd(j).kind = "recall_scene"
                                        /\ cmd(j).protocol = p
                                        /\ cmd(j).group_id = m.native_scenes[p].group_name
                                        /\ cmd(j).scene_id = m.native_scenes[p].scene_id
                        ELSE \A p \in DOMAIN m.native_groups :
                                /\ Cardinality({j \in IssuedFor(i) : cmd(j).protocol = p}) = 1
                                /\ \E j \in IssuedFor(i) :
                                        /\ cmd(j).protocol = p
                                        /\ IF m.native_groups[p].group_id # <<>>
                                            THEN /\ cmd(j).kind = "send_group_command"
                                                 /\ cmd(j).group_id = m.native_groups[p].group_id
                                            ELSE /\ cmd(j).kind = "send_multicast"
                                                 /\ cmd(j).native_ids =
                                                        m.native_groups[p].member_native_ids

\* C3: dispatch branches are isolated: when a command or a per-entity service
\* call raises, the call still issues every command it issues when nothing
\* raises (for the other protocols, the ungrouped entities and the other
\* targets), returns true and raises nothing.
C3_BranchesIsolated ==
    (lastDispatch.called /\ \E j \in DOMAIN lastDispatch.issued : lastDispatch.issued[j].raised) =>
        /\ ~lastDispatch.raised
        /\ lastDispatch.handled
        /\ \A i \in DOMAIN NamedKeys :
            NamedKeys[i] \in DOMAIN mappings =>
                LET m == mappings[NamedKeys[i]]
                    cmd(j) == lastDispatch.issued[j].cmd
                IN  /\ \A e \in m.ungrouped_entities :
                            \E j \in IssuedFor(i) :
                                cmd(j).kind = "service_call" /\ cmd(j).entity_id = e
                    /\ \A p \in (DOMAIN m.native_groups \cup DOMAIN m.native_scenes)
                                    \cap handlers :
                            \E j \in IssuedFor(i) : cmd(j).protocol = p

\* C3 happens: one call with two mapped targets in which a command raised and
\* commands after it were issued without raising.
C3_Witness ==
    /\ lastDispatch.called
    /\ Cardinality({i \in DOMAIN NamedKeys : NamedKeys[i] \in DOMAIN mappings}) > 1
    /\ \E j, k \in DOMAIN lastDispatch.issued :
            /\ j < k
            /\ lastDispatch.issued[j].raised
            /\ ~lastDispatch.issued[k].raised

\* The last provisioning pass had members and was a group/area/floor/label
\* pass, respectively a scene pass.
ProvisionedGroup ==
    lastProv.key # NoKey /\ lastProv.members # {} /\ lastProv.type # GROUPING_TYPE_SCENE
ProvisionedScene ==
    lastProv.key # NoKey /\ lastProv.members # {} /\ lastProv.type = GROUPING_TYPE_SCENE
MembersOn(p) == {e.entity_id : e \in lastProv.by[p]}
CallsFor(p) == {x \in lastProv.calls : x[2] = p}

\* C4 (as claimed): provisioning a group/area/floor/label with N members on
\* a protocol P that has an active handler produces, for N = 1, a
\* NativeGroupRef for P with group_id None and the single member in
\* member_entity_ids, without calling create_group; for every N > 1 a
\* NativeGroupRef for P with a populated group_id.
C4_GroupingCardinality ==
    ProvisionedGroup =>
        \A p \in DOMAIN lastProv.by \cap lastProv.handlers :
            /\ p \in DOMAIN lastProv.mapping.native_groups
            /\ IF Cardinality(lastProv.by[p]) = 1
                THEN /\ lastProv.mapping.native_groups[p].group_id = <<>>
                     /\ lastProv.mapping.native_groups[p].member_entity_ids = MembersOn(p)
                     /\ CallsFor(p) = {}
                ELSE lastProv.mapping.native_groups[p].group_id # <<>>

\* C4 (amended): as C4 for N = 1; for every N > 1 a NativeGroupRef for P with
\* a populated group_id is produced unless the handler's create_group raised,
\* in which case no NativeGroupRef for P is recorded and sync_error is set.
C4_GroupingCardinalityUnlessCreateRaises ==
    ProvisionedGroup =>
        \A p \in DOMAIN lastProv.by \cap lastProv.handlers :
            IF Cardinality(lastProv.by[p]) = 1
                THEN /\ p \in DOMAIN lastProv.mapping.native_groups
                     /\ lastProv.mapping.native_groups[p].group_id = <<>>
                     /\ lastProv.mapping.native_groups[p].member_entity_ids = MembersOn(p)
                     /\ CallsFor(p) = {}
            ELSE IF p \in lastProv.failed
                THEN /\ p \notin DOMAIN lastProv.mapping.native_groups
                     /\ lastProv.mapping.sync_error # "None"
            ELSE /\ p \in DOMAIN lastProv.mapping.native_groups
                 /\ lastProv.mapping.native_groups[p].group_id # <<>>

\* C4 happens: one pass with a single-member protocol and a protocol with
\* several members whose group was created.
C4_Witness ==
    /\ ProvisionedGroup
    /\ \E p, q \in DOMAIN lastProv.by \cap lastProv.handlers :
            /\ Cardinality(lastProv.by[p]) = 1
            /\ Cardinality(lastProv.by[q]) > 1
            /\ q \in DOMAIN lastProv.mapping.native_groups

\* C5: when a scene is provisioned, a protocol with exactly one member of the
\* scene, or whose handler does not support native scenes, gets no
\* NativeSceneRef; all its scene members are in ungrouped_entities and
\* neither create_group nor store_scene is called for it.
C5_SceneFallback ==
    ProvisionedScene =>
        \A p \in DOMAIN lastProv.by :
            (Cardinality(lastProv.by[p]) = 1 \/ ~async_supports_native_scenes(p)) =>
                /\ p \notin DOMAIN lastProv.mapping.native_scenes
                /\ MembersOn(p) \subseteq lastProv.mapping.ungrouped_entities
                /\ CallsFor(p) = {}

\* C5 happens: a scene pass in which a protocol with an active handler has
\* one member and another protocol got its native scene.
C5_Witness ==
    /\ ProvisionedScene
    /\ \E p \in DOMAIN lastProv.by \cap lastProv.handlers : Cardinality(lastProv.by[p]) = 1
    /\ lastProv.mapping.native_scenes # <<>>

\* The places of a mapping an entity appears in.
Places(m, e) ==
    {<<"group", p>> : p \in {q \in DOMAIN m.native_groups :
                                e \in m.native_groups[q].member_entity_ids}}
    \cup {<<"scene", p>> : p \in {q \in DOMAIN m.native_scenes :
                                e \in m.native_scenes[q].member_entity_ids}}
    \cup (IF e \in m.ungrouped_entities THEN {<<"ungrouped", "">>} ELSE {})

\* C6: in every mapping of the mapping table, in every reachable state, each
\* entity appears in at most one of: the members of one protocol's native
\* group, the members of one protocol's native scene, ungrouped_entities.
C6_EntityInOnePlace ==
    \A k \in DOMAIN mappings : \A e \in Entities : Cardinality(Places(mappings[k], e)) <= 1

\* C6 happens: a mapping with native groups of two protocols and an ungrouped
\* entity of a protocol that has a native group in the same mapping.
C6_Witness ==
    \E k \in DOMAIN mappings :
        /\ Cardinality(DOMAIN mappings[k].native_groups) > 1
        /\ \E e \in mappings[k].ungrouped_entities :
                classify_entity(e).protocol \in DOMAIN mappings[k].native_groups

\* The members of the capability sub-group of the last pass's Z-Wave group.
SubGroup(capability) ==
    LET key == SubGroupKey(_generate_group_name(lastProv.key, PROTOCOL_ZWAVE_JS), capability)
    IN  IF key \in DOMAIN lastProv.zw_groups THEN lastProv.zw_groups[key] ELSE {}

\* C7 (as claimed): when a grouping with more than one Z-Wave member is
\* provisioned, every member whose capability is None is in
\* ungrouped_entities and absent from the protocol's member_entity_ids and
\* member_native_ids and from every capability sub-group; every member with a
\* capability is in exactly one sub-group, the one of its capability.
C7_CapabilitySubGroups ==
    (/\ ProvisionedGroup
     /\ PROTOCOL_ZWAVE_JS \in DOMAIN lastProv.by \cap lastProv.handlers
     /\ Cardinality(lastProv.by[PROTOCOL_ZWAVE_JS]) > 1) =>
        /\ PROTOCOL_ZWAVE_JS \in DOMAIN lastProv.mapping.native_groups
        /\ \A e \in lastProv.by[PROTOCOL_ZWAVE_JS] :
            LET group_ref == lastProv.mapping.native_groups[PROTOCOL_ZWAVE_JS] IN
            IF e.capability = "None"
                THEN /\ e.entity_id \in lastProv.mapping.ungrouped_entities
                     /\ e.entity_id \notin group_ref.member_entity_ids
                     /\ e.native_id \notin group_ref.member_native_ids
                     /\ \A c \in Capabilities : e.native_id \notin SubGroup(c)
                ELSE \A c \in Capabilities : e.native_id \in SubGroup(c) <=> c = e.capability

\* C8: members classified to a protocol without an active handler and members
\* of protocol unknown are all in ungrouped_entities, for groups and scenes
\* alike; no native group or scene is created for them and no sync_error is
\* recorded because of them.
C8_NoHandlerFallsBack ==
    (lastProv.key # NoKey /\ lastProv.members # {}) =>
        /\ \A p \in DOMAIN lastProv.by \ lastProv.handlers :
                /\ MembersOn(p) \subseteq lastProv.mapping.ungrouped_entities
                /\ p \notin DOMAIN lastProv.mapping.native_groups
                /\ p \notin DOMAIN lastProv.mapping.native_scenes
                /\ CallsFor(p) = {}
        /\ lastProv.failed \subseteq lastProv.handlers
        /\ lastProv.mapping.sync_error # "None" => lastProv.failed # {}

\* C8 happens: a scene pass with members on a disabled protocol, on an
\* enabled protocol whose integration is not loaded, and of protocol unknown.
C8_Witness ==
    /\ ProvisionedScene
    /\ PROTOCOL_ZIGBEE2MQTT \notin enabled_protocols
    /\ PROTOCOL_ZHA \in enabled_protocols
    /\ {PROTOCOL_ZIGBEE2MQTT, PROTOCOL_ZHA, PROTOCOL_UNKNOWN} \subseteq DOMAIN lastProv.by
    /\ lastProv.handlers \cap {PROTOCOL_ZIGBEE2MQTT, PROTOCOL_ZHA} = {}

\* C9 (as claimed): when the resolved member set of a grouping is empty,
\* provisioning is a no-op and afterwards the mapping table holds no mapping
\* for that key: none is created and an existing one is not retained.
C9_EmptyMeansNoMapping ==
    (lastProv.key # NoKey /\ lastProv.members = {}) => lastProv.key \notin DOMAIN mappings

\* Teardown of a deleted grouping's managed resources has calls left to make.
TeardownPending(t) ==
    \/ t.dels # {}
    \/ /\ \E j \in DOMAIN t.ops : t.ops[j] = Op("cleanup", t.key)
       /\ \E r \in managed_resources[t.key] : r.protocol \in handlers

\* C10 (as claimed): on deletion of any grouping, every delete_group /
\* remove_scene call for the managed resources of its key has completed
\* before the key's entry is removed from the mapping table: the mapping
\* entry is never gone while teardown for that key has not yet run.
C10_TeardownBeforeMappingRemoved ==
    \A i \in DOMAIN tasks :
        (/\ tasks[i].kind \in {"deleted", "remove"}
         /\ tasks[i].had
         /\ TeardownPending(tasks[i])) => tasks[i].key \in DOMAIN mappings

\* The resource references a provisioning pass records for the mapping it
\* produces (orchestrator.py 799-802, 616-620).
RefsOf(m) ==
    {GroupResource(p, m.native_groups[p].group_id) :
        p \in {q \in DOMAIN m.native_groups : m.native_groups[q].group_id # <<>>}}
    \cup UNION {{GroupResource(p, m.native_scenes[p].group_name),
                 SceneResource(p, m.native_scenes[p].group_name,
                               m.native_scenes[p].scene_id)} :
                p \in DOMAIN m.native_scenes}

\* A provisioning pass with members stores its mapping in this step.
PassStored == lastProv' # lastProv /\ lastProv'.key # NoKey /\ lastProv'.members # {}

\* C11 (as claimed): on every path that replaces the mapping of a key K, the
\* managed-resources entry of K was cleared before, so that right after the
\* replacement managed_resources[K] holds exactly the resource references
\* recorded by the pass that produced the current mapping.
C11_ManagedResourcesOfCurrentPass ==
    [][PassStored => managed_resources'[lastProv'.key] = RefsOf(lastProv'.mapping)]_vars

\* How a mapping partitions the members: per protocol the members of its
\* native group and of its native scene, and the ungrouped entities.
Partition(m) ==
    [groups |-> [p \in DOMAIN m.native_groups |-> m.native_groups[p].member_entity_ids],
     scenes |-> [p \in DOMAIN m.native_scenes |-> m.native_scenes[p].member_entity_ids],
     ungrouped |-> m.ungrouped_entities]

\* The coroutine that stores the mapping of key k in this step runs
\* cleanup-then-provision for k (sync_entity or an update event).
ReprovisionStored(k) ==
    /\ PassStored
    /\ lastProv'.key = k
    /\ \E i \in DOMAIN tasks' :
            /\ tasks'[i].key = k
            /\ tasks'[i].call = "save"
            /\ tasks'[i].kind \in {"sync_entity", "updated", "update"}

\* C12 (as claimed): cleanup-then-provision for a key whose mapping was
\* provisioned before with the same members, registries and handlers (the new
\* mapping partitions the members as the old one did) leaves
\* managed_resources for the key identical to what it was after the earlier
\* run (the entry last saved): same group and scene references.
C12_ReprovisionIdempotent ==
    [][\A k \in Keys :
        (/\ ReprovisionStored(k)
         /\ k \in DOMAIN mappings
         /\ Partition(mappings[k]) = Partition(lastProv'.mapping))
            => managed_resources'[k] = persisted.managed_resources[k]]_vars

\* ---------------------------------------------------------------------------
\* The scene id allocator on its own: a long sequence of allocations, with
\* the orchestrator stopped and started again in between.
\* ---------------------------------------------------------------------------

\* One call of _allocate_scene_id, as _provision_scene makes it.
Allocate ==
    /\ Len(allocated) < MaxAllocations
    /\ allocated' = Append(allocated, _allocate_scene_id(scene_id_counter).scene_id)
    /\ scene_id_counter' = _allocate_scene_id(scene_id_counter).counter
    /\ UNCHANGED <<groupings, loaded, enabled_protocols, handlers, mappings,
                   managed_resources, hs, persisted, started, sync_pending, tasks,
                   lastProv, lastCleanup, lastSync, lastDispatch, events, setups, lastReconcile,
                   listeners, stopping, window, info, options, limits,
                   clock, lastCall, zha>>

\* async_stop saves the state; the next orchestrator starts from
\* SCENE_ID_START and async_start loads the saved state.
Restart ==
    /\ Commit(_async_load_state(
                [_async_save_state(World) EXCEPT !.scene_id_counter = SCENE_ID_START]),
              tasks)
    /\ UNCHANGED <<loaded, enabled_protocols, sync_pending, lastDispatch, events,
                   setups, aux>>

NextAlloc == Allocate \/ Restart

SpecAlloc == Init /\ [][NextAlloc]_vars

\* C13: every allocated scene id and the counter itself lie in
\* [SCENE_ID_START, SCENE_ID_MAX]; each allocation returns the previous id plus
\* one, or SCENE_ID_START after SCENE_ID_MAX; and among the first
\* MAX - START + 2 ids of a fresh counter SCENE_ID_START is exactly the first
\* and the last, also across a save and reload of the state.
C13_AllocatorRange ==
    /\ scene_id_counter \in SCENE_ID_START..SCENE_ID_MAX
    /\ persisted.present => persisted.scene_id_counter \in SCENE_ID_START..SCENE_ID_MAX
    /\ \A i \in DOMAIN allocated : allocated[i] \in SCENE_ID_START..SCENE_ID_MAX
    /\ \A i \in DOMAIN allocated :
            i + 1 \in DOMAIN allocated =>
                allocated[i + 1] = IF allocated[i] = SCENE_ID_MAX
                                    THEN SCENE_ID_START ELSE allocated[i] + 1
    /\ Len(allocated) >= SCENE_ID_MAX - SCENE_ID_START + 2 =>
            {i \in 1..(SCENE_ID_MAX - SCENE_ID_START + 2) : allocated[i] = SCENE_ID_START}
                = {1, SCENE_ID_MAX - SCENE_ID_START + 2}

\* The counter wrapped: MAX - START + 2 ids were allocated, the state was
\* saved and loaded, and SCENE_ID_MAX was handed out.
C13_Witness ==
    /\ Len(allocated) = SCENE_ID_MAX - SCENE_ID_START + 2
    /\ allocated[Len(allocated)] = SCENE_ID_START
    /\ allocated[Len(allocated) - 1] = SCENE_ID_MAX
    /\ persisted.present
    /\ persisted.scene_id_counter = SCENE_ID_START + 1

\* The tasks other than the i-th, in order.
Others(ts, i) == SubSeq(ts, 1, i - 1) \o SubSeq(ts, i + 1, Len(ts))

\* The i-th task was suspended in store_scene and this step resumes it.
StoreResumed(i) ==
    /\ tasks[i].call = "store"
    /\ Len(tasks') = Len(tasks)
    /\ tasks'[i] # tasks[i]
    /\ Others(tasks', i) = Others(tasks, i)

\* The mapping and the failed protocols of the pass of task i after the step:
\* the locals of the pass while it runs, what it stored once it has ended.
PassAfter(i) ==
    IF tasks'[i].st = "prov"
        THEN [mapping |-> tasks'[i].loc.mapping, failed |-> tasks'[i].loc.failed]
    ELSE [mapping |-> lastProv'.mapping, failed |-> lastProv'.failed]

StoreRetried(i) ==
    /\ tasks'[i].call = "store"
    /\ tasks'[i].loc.todo = tasks[i].loc.todo
    /\ tasks'[i].loc.attempt = tasks[i].loc.attempt + 1

\* What one return of store_scene for protocol p does to the pass of task i.
StoreOutcome(i, p, name, key) ==
    /\ tasks[i].loc.attempt \in 1..max_retries
    /\ \/ /\ StoreRetried(i)
          /\ tasks[i].loc.attempt < max_retries
          /\ tasks'[i].loc.mapping = tasks[i].loc.mapping
          /\ tasks'[i].loc.failed = tasks[i].loc.failed
          /\ managed_resources' = managed_resources
       \/ /\ ~StoreRetried(i)
          /\ p \in DOMAIN PassAfter(i).mapping.native_scenes
          /\ PassAfter(i).mapping.native_scenes[p] =
                NativeSceneRef(p, name, tasks[i].loc.scene_id,
                               {e.entity_id : e \in tasks[i].loc.by[p]})
          /\ GroupResource(p, name) \in managed_resources'[key]
          /\ SceneResource(p, name, tasks[i].loc.scene_id) \in managed_resources'[key]
          /\ p \notin PassAfter(i).failed
          /\ PassAfter(i).mapping.sync_error = tasks[i].loc.mapping.sync_error
       \/ /\ ~StoreRetried(i)
          /\ tasks[i].loc.attempt = max_retries
          /\ p \in PassAfter(i).failed
          /\ PassAfter(i).mapping.sync_error = "store_scene"
          /\ p \notin DOMAIN PassAfter(i).mapping.native_scenes
          /\ managed_resources'[key] = managed_resources[key]

RecordedFor(m, p) ==
    (IF p \in DOMAIN m.native_groups THEN m.native_groups[p].member_entity_ids ELSE {})
    \cup (IF p \in DOMAIN m.native_scenes THEN m.native_scenes[p].member_entity_ids ELSE {})
    \cup m.ungrouped_entities

\* Protocol p of the pass was provisioned: a protocol with a handler and more
\* than one member has its native group or native scene, and every member is
\* recorded in the mapping.
ProvisionedIn(pass, p) ==
    /\ {e.entity_id : e \in pass.by[p]} \subseteq RecordedFor(pass.mapping, p)
    /\ (p \in pass.handlers /\ Cardinality(pass.by[p]) > 1) =>
            IF pass.type = GROUPING_TYPE_SCENE
                THEN p \in DOMAIN pass.mapping.native_scenes
            ELSE p \in DOMAIN pass.mapping.native_groups

\* C15: when the create call (or the scene store) of a protocol fails in a
\* provisioning pass, the mapping the pass stores has sync_error set, every
\* other protocol with members is provisioned and recorded in it, the mapping
\* is in the mapping table and in the persisted state, and the coroutine that
\* ran the pass goes on.
C15_FailureIsolated ==
    [][(PassStored /\ lastProv'.failed # {}) =>
        /\ lastProv'.mapping.sync_error # "None"
        /\ \A p \in DOMAIN lastProv'.by \ lastProv'.failed :
                ProvisionedIn(lastProv', p)
        /\ lastProv'.key \in DOMAIN mappings'
        /\ mappings'[lastProv'.key] = lastProv'.mapping
        /\ persisted'.present
        /\ lastProv'.key \in DOMAIN persisted'.mappings
        /\ persisted'.mappings[lastProv'.key] = to_dict(lastProv'.mapping)
        /\ \E i \in DOMAIN tasks' :
                tasks'[i].st = "idle" /\ tasks'[i].call = "save"]_vars

\* A pass has stored its mapping after the create call of one protocol
\* failed, with the native group of a later protocol in it.
C15_Witness ==
    /\ lastProv.failed # {}
    /\ \E p \in lastProv.failed : <<"create_group", p>> \in lastProv.calls
    /\ \E p \in DOMAIN lastProv.mapping.native_groups :
            /\ p \notin lastProv.failed
            /\ lastProv.mapping.native_groups[p].group_id # <<>>
            /\ Cardinality(lastProv.by[p]) > 1
    /\ lastProv.key \in DOMAIN mappings
    /\ mappings[lastProv.key] = lastProv.mapping
    /\ persisted.present

\* ---------------------------------------------------------------------------
\* Periodic reconciliation (_async_reconcile), run by the timer async_start
\* arms.
\* ---------------------------------------------------------------------------

\* Reconciliation passes the timer runs.
MaxReconciles == 2
\* Device registry events delivered to the listener (SpecDebounce).
MaxTriggers == 3

\* A group a user created on the ZHA gateway, outside the managed id range.
UserGroupId == <<"gid", 1>>
UserGroupName == <<"user", <<"group", "u1">>, PROTOCOL_ZHA>>

\* async_get_groups: the groups the handler reports, id and name.  Z-Wave and
\* Zigbee2MQTT report the groups they track by name, ZHA the groups of the
\* gateway.
async_get_groups(h, protocol) ==
    IF protocol = PROTOCOL_ZWAVE_JS THEN
        {[id |-> k, name |-> k] : k \in DOMAIN h.zw_groups}
    ELSE IF protocol = PROTOCOL_ZIGBEE2MQTT THEN
        {[id |-> k, name |-> k] : k \in DOMAIN h.z2m_groups}
    ELSE {[id |-> h.zha_names[n], name |-> n] : n \in DOMAIN h.zha_names}

\* _async_reconcile 260-265: the group ids of the native_groups of the
\* mappings for the protocol.
managed_group_ids(ms, protocol) ==
    {ms[k].native_groups[protocol].group_id :
        k \in {j \in DOMAIN ms : protocol \in DOMAIN ms[j].native_groups}}

\* group_name.startswith("ha_")
HasPrefix(group_name) == group_name[1] = "ha"

\* A reconciliation that deletes whatever no mapping manages, prefix or not.
IsOrphan_ignoring_prefix(group, managed) == group.id \notin managed

\* _async_reconcile 270: the test for an orphaned group.
IsOrphan(group, managed) == HasPrefix(group.name) /\ group.id \notin managed

RECURSIVE DeleteGroups(_, _, _)
DeleteGroups(h, protocol, ids) ==
    IF ids = <<>> THEN h
    ELSE DeleteGroups(async_delete_group(h, protocol, Head(ids)), protocol, Tail(ids))

\* _async_reconcile 256-283 for one protocol: delete_group for each orphan
\* in turn; a call that raises ends the loop of the protocol.
ReconcileProtocol(h, ms, protocol, raises) ==
    LET orphans == SetToSeq({g.id : g \in {x \in async_get_groups(h, protocol) :
                                IsOrphan(x, managed_group_ids(ms, protocol))}})
    IN  IF raises /\ orphans # <<>>
            THEN [hs |-> h, calls |-> <<[protocol |-> protocol, id |-> Head(orphans)]>>,
                  raised |-> TRUE]
        ELSE [hs |-> DeleteGroups(h, protocol, orphans),
              calls |-> [i \in 1..Len(orphans) |->
                            [protocol |-> protocol, id |-> orphans[i]]],
              raised |-> FALSE]

\* The loop over the handlers: the handler state and the record of the pass.
RECURSIVE ReconcileAll(_, _, _, _)
ReconcileAll(ps, fails, h, rec) ==
    IF ps = <<>> THEN [hs |-> h, rec |-> rec]
    ELSE LET r == ReconcileProtocol(h, mappings, Head(ps), Head(ps) \in fails) IN
         ReconcileAll(Tail(ps), fails, r.hs,
            [rec EXCEPT
                !.reported = @ \cup {[protocol |-> Head(ps), id |-> g.id, name |-> g.name] :
                                        g \in async_get_groups(h, Head(ps))},
                !.managed = @ \cup {<<Head(ps), id>> :
                                        id \in managed_group_ids(mappings, Head(ps))},
                !.deleted = @ \o r.calls,
                !.raised = IF r.raised THEN @ \cup {Head(ps)} ELSE @])

\* _async_reconcile: one pass of the timer.  fails: the protocols whose
\* delete_group raises (the Zigbee2MQTT publish).
Reconcile(fails) ==
    /\ ~lastDispatch.called
    /\ loaded
    /\ listeners > 0
    /\ lastReconcile.n < MaxReconciles
    /\ LET r == ReconcileAll(SelectSeq(ProtocolOrder, LAMBDA p : p \in handlers), fails, hs,
                             [NoReconcile EXCEPT !.n = lastReconcile.n + 1,
                                                 !.handlers = handlers])
       IN  /\ hs' = r.hs
           /\ lastReconcile' = r.rec
    /\ UNCHANGED <<groupings, loaded, enabled_protocols, handlers, mappings,
                   managed_resources, scene_id_counter, persisted, started,
                   sync_pending, tasks, lastProv, lastCleanup, lastSync, lastDispatch, events, setups,
                   allocated, listeners, stopping, window, info, options, limits,
                   clock, lastCall, zha>>

\* The gateway holds a group of the user when the integration is set up.
InitReconcile ==
    /\ clock = 1
    /\ groupings \in InitialGroupings
    /\ loaded = FALSE
    /\ enabled_protocols = Protocols
    /\ handlers = {}
    /\ mappings = <<>>
    /\ managed_resources = [k \in Keys |-> {}]
    /\ scene_id_counter = SCENE_ID_START
    /\ hs = [NewHandlerState EXCEPT !.zha_groups = UserGroupId :> {"aa:09"},
                                    !.zha_names = UserGroupName :> UserGroupId]
    /\ persisted = EmptyStore
    /\ started = FALSE
    /\ sync_pending = FALSE
    /\ tasks = <<>>
    /\ lastProv = NoProv
    /\ lastCleanup = NoCleanup
    /\ lastSync = NoSync
    /\ lastDispatch = NoDispatch
    /\ events = 0
    /\ setups = 0
    /\ allocated = <<>>
    /\ lastReconcile = NoReconcile
    /\ listeners = 0
    /\ stopping = FALSE
    /\ window = NoWindow
    /\ limits = Limits
    /\ lastCall = NoCall
    /\ zha = NewZHAHandler
    /\ options = GroupingTypes
    /\ info = NoInfo

NextReconcile ==
    \/ \E c \in SetupChoices : SetupEntry(c.enabled, c.components)
    \/ Unload
    \/ \E i \in 1..MaxTasks, oc \in {"ok", "fail"}, ref \in AllRefs : TaskStep(i, oc, ref)
    \/ \E fails \in SUBSET {PROTOCOL_ZIGBEE2MQTT} : Reconcile(fails)

SpecReconcile == InitReconcile /\ [][NextReconcile]_vars

\* The number of delete_group calls of the pass for a group.
DeleteCalls(g) ==
    Cardinality({i \in DOMAIN lastReconcile.deleted :
                    lastReconcile.deleted[i] = [protocol |-> g.protocol, id |-> g.id]})

\* The reported group is orphaned: reserved prefix, id not managed.
Orphaned(g) ==
    g.name[1] = "ha" /\ <<g.protocol, g.id>> \notin lastReconcile.managed

GroupIds(h, protocol) ==
    IF protocol = PROTOCOL_ZWAVE_JS THEN DOMAIN h.zw_groups
    ELSE IF protocol = PROTOCOL_ZIGBEE2MQTT THEN DOMAIN h.z2m_groups
    ELSE DOMAIN h.zha_groups

\* The groups behind the native group of mapping m for the protocol: the
\* group itself and, for Z-Wave, its capability sub-groups.
GroupsOfNativeGroup(h, m, protocol) ==
    IF protocol \notin DOMAIN m.native_groups \/ m.native_groups[protocol].group_id = <<>>
        THEN {}
    ELSE {m.native_groups[protocol].group_id}
         \cup (IF protocol = PROTOCOL_ZWAVE_JS
                THEN {SubGroupKey(m.native_groups[protocol].group_id, c) : c \in Capabilities}
                ELSE {})

\* The group the native scene of mapping m for the protocol is attached to.
GroupsOfNativeScene(h, m, protocol) ==
    IF protocol \notin DOMAIN m.native_scenes THEN {}
    ELSE IF protocol = PROTOCOL_ZHA
        THEN {h.zha_names[n] : n \in {m.native_scenes[protocol].group_name}
                                        \cap DOMAIN h.zha_names}
    ELSE {m.native_scenes[protocol].group_name}

BackingGroups(h, m, protocol) ==
    (GroupsOfNativeGroup(h, m, protocol) \cup GroupsOfNativeScene(h, m, protocol))
        \cap GroupIds(h, protocol)

\* C17 (as claimed): a reconciliation pass deletes no group that backs a
\* current mapping: every group behind a native group (its capability
\* sub-groups included) or a native scene of a mapping that the handler held
\* before the pass, it holds after the pass, so that dispatch reaches it.
C17_ReconcileKeepsBackingGroups ==
    [][lastReconcile'.n # lastReconcile.n =>
        \A k \in DOMAIN mappings : \A p \in handlers :
            BackingGroups(hs, mappings[k], p) \subseteq GroupIds(hs', p)]_vars

\* ---------------------------------------------------------------------------
\* The lifecycle on its own: async_start and async_stop called again,
\* overlapping, and with background tasks pending.
\* ---------------------------------------------------------------------------

\* The tasks in _pending_tasks: those _create_background_task made.  The
\* coroutine of async_start is awaited by its caller and is not among them.
Tracked(t) == t.kind # "start"

\* async_stop 151-155, with tasks pending: each is cancelled and async_stop
\* waits in gather.  A cancelled task ends at the call it is suspended in.
StopBegin ==
    /\ ~lastDispatch.called
    /\ loaded
    /\ started
    /\ ~stopping
    /\ \E i \in DOMAIN tasks : Tracked(tasks[i])
    /\ tasks' = SelectSeq(tasks, LAMBDA t : ~Tracked(t))
    /\ stopping' = TRUE
    /\ UNCHANGED <<groupings, loaded, enabled_protocols, handlers, mappings,
                   managed_resources, scene_id_counter, hs, persisted, started,
                   sync_pending, lastProv, lastCleanup, lastSync, lastDispatch, events, setups, allocated,
                   lastReconcile, listeners, window, info, options, limits,
                   clock, lastCall, zha>>

\* async_stop 156-174, after the gather: the set is cleared, the listeners
\* are removed, the debouncer is shut down, the state is saved and the
\* handlers are cleaned up.  A task created during the gather is in the set
\* that is cleared; it is neither cancelled nor awaited.
StopEnd ==
    /\ ~lastDispatch.called
    /\ stopping
    /\ Commit([_async_save_state(World) EXCEPT !.started = FALSE,
                                               !.hs = async_cleanup(@)], tasks)
    /\ loaded' = FALSE
    /\ stopping' = FALSE
    /\ sync_pending' = FALSE
    /\ listeners' = 0
    /\ window' = NoWindow
    /\ UNCHANGED <<limits, clock, lastCall, zha>>
    /\ UNCHANGED options
    /\ UNCHANGED info
    /\ UNCHANGED <<enabled_protocols, lastDispatch, events, setups, allocated,
                   lastReconcile>>

\* async_stop on an orchestrator that was never started or is stopped: the
\* method has no guard.  Nothing is pending and no listener is attached, and
\* it goes on to save the state and to clean up the handlers it holds.
StopAgain ==
    /\ ~lastDispatch.called
    /\ ~loaded
    /\ ~stopping
    /\ Commit([_async_save_state(World) EXCEPT
                    !.started = FALSE,
                    !.hs = IF handlers = {} THEN @ ELSE async_cleanup(@)], tasks)
    /\ sync_pending' = FALSE
    /\ listeners' = 0
    /\ window' = NoWindow
    /\ UNCHANGED <<limits, clock, lastCall, zha>>
    /\ UNCHANGED options
    /\ UNCHANGED info
    /\ UNCHANGED <<loaded, enabled_protocols, lastDispatch, events, setups,
                   allocated, lastReconcile, stopping>>

\* async_start on a started orchestrator: line 109 returns.
StartAgain ==
    /\ ~lastDispatch.called
    /\ loaded
    /\ started
    /\ UNCHANGED vars

\* async_start called while an earlier call awaits async_sync_all: _started is
\* set at the end only (line 144), so the guard lets the second call pass.  It
\* loads the state, attaches the listeners and the timer and runs its own full
\* sync.
StartOverlap ==
    /\ ~lastDispatch.called
    /\ loaded
    /\ ~started
    /\ ~stopping
    /\ Len(tasks) = 1
    /\ tasks[1].kind = "start"
    /\ Enqueue(RunSync(Ctx(_async_load_state(World),
                           NewTask("start", NoKey, FALSE,
                                   SyncAllOps \o <<Op("started", NoKey)>>))))
    /\ sync_pending' = FALSE
    /\ listeners' = listeners + 1
    /\ window' = NoWindow
    /\ UNCHANGED <<limits, clock, lastCall, zha>>
    /\ UNCHANGED options
    /\ UNCHANGED info
    /\ UNCHANGED <<loaded, enabled_protocols, lastDispatch, events, setups,
                   allocated, lastReconcile, stopping>>

NextLifecycle ==
    \/ \E c \in SetupChoices : SetupEntry(c.enabled, c.components)
    \/ Unload
    \/ \E k \in KeysOfType(GROUPING_TYPE_GROUP), eager \in BOOLEAN :
            MembershipChanged(k, eager)
    \/ \E i \in 1..MaxTasks, oc \in {"ok", "fail"}, ref \in AllRefs : TaskStep(i, oc, ref)
    \/ StopBegin
    \/ StopEnd
    \/ StopAgain
    \/ StartAgain
    \/ StartOverlap

SpecLifecycle == Init /\ [][NextLifecycle]_vars

\* C18 (as claimed): async_start on a started orchestrator and async_stop on
\* one that is not started change nothing (no handler setup or cleanup, no
\* listener, no sync, no cancelled task, no state save), and the listeners
\* and the timer are attached at most once however the async_start calls
\* overlap.
C18_ReentrantCallsAreNoOps ==
    [][/\ StartAgain => UNCHANGED vars
       /\ StopAgain => UNCHANGED <<handlers, hs, persisted, tasks, listeners,
                                   mappings, managed_resources>>
       /\ listeners' <= 1]_vars

\* C19 (as claimed): once async_stop has returned, no task that
\* _create_background_task made is running or pending.
C19_NoTaskSurvivesStop ==
    (~loaded /\ ~stopping) => \A i \in DOMAIN tasks : ~Tracked(tasks[i])

\* ---------------------------------------------------------------------------
\* The debounced re-sync on its own: any number of registry updates between
\* two runs of the debouncer.
\* ---------------------------------------------------------------------------

\* A registry listener that schedules a re-sync on every update.
SchedulesSync_any_update(action, changes) == action = "update"

\* _on_entity_registry_updated 442-446 / _on_device_registry_updated 453-457:
\* whether the update schedules the debouncer.
SchedulesSync(action, changes) ==
    action = "update" /\ changes \cap {"area_id", "labels"} # {}

\* _on_device_registry_updated: a device registry event.  An update of
\* area_id or labels gives the area or label k the member set ms; the
\* listener creates no task, it schedules the debouncer or does nothing.
DeviceRegistryUpdated(k, ms, action, changes) ==
    /\ ~lastDispatch.called
    /\ loaded
    /\ events < MaxTriggers
    /\ RegistryListening
    /\ groupings[k].exists
    /\ groupings' = IF action = "update" /\ changes \cap {"area_id", "labels"} # {}
                        THEN [groupings EXCEPT ![k].members = ms]
                    ELSE groupings
    /\ sync_pending' = (sync_pending \/ SchedulesSync(action, changes))
    /\ window' = IF SchedulesSync(action, changes)
                    THEN [window EXCEPT !.calls = @ + 1] ELSE window
    /\ UNCHANGED <<limits, clock, lastCall, zha>>
    /\ UNCHANGED options
    /\ UNCHANGED info
    /\ events' = events + 1
    /\ UNCHANGED <<lastDispatch, allocated, lastReconcile, listeners, stopping>>
    /\ UNCHANGED <<loaded, enabled_protocols, handlers, mappings, managed_resources,
                   scene_id_counter, hs, persisted, started, tasks, lastProv, lastCleanup, lastSync, setups>>

\* The member sets a device moving between areas gives an area.
DeviceMoves ==
    { {<<"light", "zc">>},
      {<<"light", "zd">>, <<"light", "zn">>, <<"light", "v">>} }

\* The device registry events of the model.
DeviceUpdates ==
    { [action |-> "update", changes |-> {"area_id"}],
      [action |-> "update", changes |-> {"labels", "name_by_user"}],
      [action |-> "update", changes |-> {"name_by_user"}],
      [action |-> "create", changes |-> {}] }

NextDebounce ==
    \/ \E c \in SetupChoices : SetupEntry(c.enabled, c.components)
    \/ \E k \in KeysOfType(GROUPING_TYPE_AREA), ms \in DeviceMoves, u \in DeviceUpdates :
            DeviceRegistryUpdated(k, ms, u.action, u.changes)
    \/ DebounceFire
    \/ \E i \in 1..MaxTasks, oc \in {"ok", "fail"}, ref \in AllRefs : TaskStep(i, oc, ref)

SpecDebounce == Init /\ [][NextDebounce]_vars

\* The re-syncs of the debouncer in flight.
Resyncs(ts) == Cardinality({i \in DOMAIN ts : ts[i].kind = "sync_all"})

BuiltMappings ==
    {mappings[k] : k \in DOMAIN mappings}
    \cup (IF lastProv.key # NoKey THEN {lastProv.mapping} ELSE {})
    \cup {tasks[i].loc.mapping : i \in {j \in DOMAIN tasks : tasks[j].st = "prov"}}

RoundTrip(m) == from_dict(to_dict(m))

\* C21: for every mapping the provisioning pipeline builds,
\* from_dict(to_dict(m)) equals m in ha_entity_id, ha_entity_type,
\* native_groups, native_scenes, ungrouped_entities, last_synced and
\* sync_error.
C21_MappingRoundTrip ==
    \A m \in BuiltMappings :
        /\ RoundTrip(m).ha_entity_id = m.ha_entity_id
        /\ RoundTrip(m).ha_entity_type = m.ha_entity_type
        /\ RoundTrip(m).native_groups = m.native_groups
        /\ RoundTrip(m).native_scenes = m.native_scenes
        /\ RoundTrip(m).ungrouped_entities = m.ungrouped_entities
        /\ RoundTrip(m).last_synced = m.last_synced
        /\ RoundTrip(m).sync_error = m.sync_error

\* The mapping table holds a mapping with a native group without group_id
\* and an empty ungrouped list, a mapping with a native scene, and a mapping
\* with sync_error set.
C21_Witness ==
    /\ \E k \in DOMAIN mappings :
            /\ \E p \in DOMAIN mappings[k].native_groups :
                    mappings[k].native_groups[p].group_id = <<>>
            /\ mappings[k].ungrouped_entities = {}
    /\ \E k \in DOMAIN mappings : mappings[k].native_scenes # <<>>
    /\ \E k \in DOMAIN mappings :
            /\ mappings[k].sync_error # "None"
            /\ mappings[k].native_groups # <<>>
            /\ mappings[k].ungrouped_entities # {}

\* -------------------------------------------------------------------------
\* The classifier as a function of the entity id.
\* -------------------------------------------------------------------------

\* Entity ids given to classify_entity: those of the registry, and lights,
\* switches and climate entities that have no registry entry.
ClassifyInputs ==
    Entities \cup {<<"light", "uc">>, <<"switch", "u">>, <<"climate", "u">>}

\* A caller gets classify_entity(entity_id).
Classify(entity_id) ==
    /\ info' = classify_entity(entity_id)
    /\ UNCHANGED <<groupings, loaded, enabled_protocols, handlers, mappings,
                   managed_resources, scene_id_counter, hs, persisted, started,
                   sync_pending, tasks, lastProv, lastCleanup, lastSync, lastDispatch, events, setups,
                   allocated, lastReconcile, listeners, stopping, window, options, limits,
                   clock, lastCall, zha>>

NextClassify ==
    \/ \E c \in SetupChoices : SetupEntry(c.enabled, c.components)
    \/ \E i \in 1..MaxTasks, oc \in {"ok", "fail"}, ref \in AllRefs : TaskStep(i, oc, ref)
    \/ \E e \in ClassifyInputs : Classify(e)

SpecClassify == Init /\ [][NextClassify]_vars

\* The entity advertises a color mode in its state attributes.
AdvertisesColor(entity_id) ==
    supported_color_modes(entity_id) \cap COLOR_MODES_COLOR # {}

\* C22: classify_entity gives a light that advertises a color mode the
\* capability color (also when it advertises brightness), a switch the
\* capability binary and an entity of a non-groupable domain no capability,
\* whatever its protocol and also when it has no entity registry entry.
C22_CapabilityClassification ==
    info # NoInfo =>
        /\ (info.entity_id[1] = "light" /\ AdvertisesColor(info.entity_id))
                => info.capability = ZWAVE_CAP_COLOR
        /\ info.entity_id[1] = "switch" => info.capability = ZWAVE_CAP_BINARY
        /\ info.entity_id[1] \notin ZWAVE_GROUPABLE_DOMAINS
                => info.capability = "None"

\* -------------------------------------------------------------------------
\* The options of the config entry.
\* -------------------------------------------------------------------------

\* options[CONF_ENABLE_*] of a setup: everything enabled, groups and areas
\* disabled, only groups and areas enabled.
OptionChoices ==
    { GroupingTypes,
      {GROUPING_TYPE_SCENE, GROUPING_TYPE_FLOOR, GROUPING_TYPE_LABEL},
      {GROUPING_TYPE_GROUP, GROUPING_TYPE_AREA} }

NextOptions ==
    \/ \E opts \in OptionChoices :
            SetupEntryWith(Protocols, {"zwave_js", "mqtt", "zha"}, opts)
    \/ Unload
    \/ \E k \in StateKeys, ex \in BOOLEAN, ms \in MemberChoices, eager \in BOOLEAN :
            StateChanged(k, ex, ms, eager)
    \/ \E k \in KeysOfType(GROUPING_TYPE_SCENE) \cap EventKeys,
          action \in {"created", "updated", "deleted"}, eager \in BOOLEAN :
            SceneChanged(k, action, eager)
    \/ \E k \in KeysOfType(GROUPING_TYPE_GROUP), eager \in BOOLEAN :
            MembershipChanged(k, eager)
    \/ \E k \in RegistryKeys, action \in {"create", "remove", "update"},
          eager \in BOOLEAN :
            RegistryUpdated(k, action, eager)
    \/ \E k \in RegistryKeys, ms \in MemberChoices : EntityRegistryUpdated(k, ms)
    \/ DebounceFire
    \/ SyncAll
    \/ \E i \in 1..MaxTasks, oc \in {"ok", "fail"}, ref \in AllRefs : TaskStep(i, oc, ref)

SpecOptions == Init /\ [][NextOptions]_vars

\* No mapping of a disabled grouping type is created or replaced.
ScopeKept ==
    \A k \in Keys :
        (k[1] \notin options /\ k \in DOMAIN mappings')
            => (k \in DOMAIN mappings /\ mappings'[k] = mappings[k])

\* C23: while the sync of a grouping type is disabled in the options, no
\* event (state change, registry update, custom membership-changed or
\* scene-changed event) and no sync_all creates or replaces a mapping of that
\* type.
C23_ScopeFollowsOptions ==
    [][(loaded /\ loaded') => ScopeKept]_vars

\* -------------------------------------------------------------------------
\* Coroutines in flight at the same time.
\* -------------------------------------------------------------------------

\* Coroutines in flight at the same time, and events of one behaviour.
MaxConcurrent == 2
MaxBurst == 2

\* The grouping the events of a burst are about.
BurstKey == <<GROUPING_TYPE_GROUP, "g1">>

\* The member lists the updates of a burst give the group.
BurstMembers ==
    { {<<"light", "zc">>, <<"light", "zd">>, <<"climate", "zx">>, <<"light", "m1">>},
      {<<"light", "m1">>, <<"light", "m2">>} }

\* The platform has the one group; the event loop holds up to MaxConcurrent
\* coroutines of the orchestrator.
InitInterleave ==
    /\ clock = 1
    /\ groupings = [k \in Keys |->
                        IF k = BurstKey
                            THEN [exists |-> TRUE, members |-> InitialMembers(k)]
                        ELSE [exists |-> FALSE, members |-> {}]]
    /\ loaded = FALSE
    /\ enabled_protocols = Protocols
    /\ handlers = {}
    /\ mappings = <<>>
    /\ managed_resources = [k \in Keys |-> {}]
    /\ scene_id_counter = SCENE_ID_START
    /\ hs = NewHandlerState
    /\ persisted = EmptyStore
    /\ started = FALSE
    /\ sync_pending = FALSE
    /\ tasks = <<>>
    /\ lastProv = NoProv
    /\ lastCleanup = NoCleanup
    /\ lastSync = NoSync
    /\ lastDispatch = NoDispatch
    /\ events = 0
    /\ setups = 0
    /\ allocated = <<>>
    /\ lastReconcile = NoReconcile
    /\ listeners = 0
    /\ stopping = FALSE
    /\ window = NoWindow
    /\ info = NoInfo
    /\ options = GroupingTypes
    /\ limits = [tasks |-> MaxConcurrent, events |-> MaxBurst]
    /\ lastCall = NoCall
    /\ zha = NewZHAHandler

NextInterleave ==
    \/ SetupEntry(Protocols, {"zwave_js", "mqtt", "zha"})
    \/ \E ex \in BOOLEAN, ms \in BurstMembers, eager \in BOOLEAN :
            StateChanged(BurstKey, ex, ms, eager)
    \/ \E eager \in BOOLEAN : MembershipChanged(BurstKey, eager)
    \/ \E i \in 1..MaxConcurrent, oc \in {"ok", "fail"}, ref \in AllRefs :
            TaskStep(i, oc, ref)

SpecInterleave == InitInterleave /\ [][NextInterleave]_vars

\* Two coroutines created for the same key are in flight.
SameKeyInFlight ==
    \E i, j \in DOMAIN tasks :
        i # j /\ tasks[i].key # NoKey /\ tasks[i].key = tasks[j].key

\* With no coroutine in flight, the mapping of an existing grouping was built
\* by a pass over the members the platform has for it now.
ReflectsMostRecent ==
    \A k \in DOMAIN mappings :
        (tasks = <<>> /\ groupings[k].exists /\ lastProv.key = k)
            => lastProv.members = groupings[k].members

\* C24: the provisioning and cleanup routines for one key never interleave,
\* and after a burst of update events for a key, once every background task
\* has finished, the stored mapping reflects the membership of the most
\* recent event.
C24_PerKeySerialised ==
    /\ ~SameKeyInFlight
    /\ ReflectsMostRecent

\* The native groups and scenes the handlers hold under the names generated
\* for key k.
NativeGroupsOf(h, k) ==
    {n \in DOMAIN h.zw_groups \cup DOMAIN h.z2m_groups : n[2] = k}
    \cup {n \in DOMAIN h.zha_names : n[2] = k /\ h.zha_names[n] \in DOMAIN h.zha_groups}
NativeScenesOf(h, k) == {s \in h.scenes : s[2][2] = k}

\* Coroutine t provisions key k, and the grouping was deleted meanwhile.
DeletedInFlight(t, k) ==
    /\ t.key = k
    /\ t.kind \in {"created", "updated"}
    /\ ~groupings[k].exists

\* C25: when a deletion event for a key is processed while a provisioning
\* task for the same key is in flight, then once every background task has
\* finished there is no mapping and no managed-resources entry for the key,
\* and no native group or scene for it remains on any handler.
C25_DeletionWins ==
    [][\A k \in Keys :
        (Len(tasks) = 1 /\ tasks' = <<>> /\ DeletedInFlight(tasks[1], k))
            => /\ k \notin DOMAIN mappings'
               /\ managed_resources'[k] = {}
               /\ NativeGroupsOf(hs', k) = {}
               /\ NativeScenesOf(hs', k) = {}]_vars

\* The groups a provisioning pass in flight has created on the handler of
\* the protocol and holds in its local mapping, not yet stored.
CreatedNotRecorded(t, h, protocol) ==
    IF t.st # "prov" THEN {}
    ELSE BackingGroups(h, t.loc.mapping, protocol)

\* C26: a reconciliation pass that interleaves with a provisioning pass in
\* flight deletes no group that the pass has created and not yet recorded,
\* so that once every task has finished each group a stored mapping
\* references exists on its handler.
C26_ReconcileSparesInFlightGroups ==
    [][lastReconcile'.n # lastReconcile.n =>
        \A i \in DOMAIN tasks : \A p \in handlers :
            CreatedNotRecorded(tasks[i], hs, p) \subseteq GroupIds(hs', p)]_vars

\* What a command puts on the wire.  ZHA's async_send_multicast sends
\* nothing; the Z-Wave one sends to the nodes that resolve to a device; a
\* command that raised was not sent.
Transmitted(issued) ==
    /\ ~issued.raised
    /\ issued.cmd.kind = "send_multicast" =>
            /\ issued.cmd.protocol # PROTOCOL_ZHA
            /\ issued.cmd.protocol = PROTOCOL_ZWAVE_JS =>
                    issued.cmd.native_ids \cap Numerals # {}

\* The transmitted command covers member e of mapping m.
Covers(issued, m, e) ==
    /\ Transmitted(issued)
    /\ IF issued.cmd.kind = "service_call" THEN issued.cmd.entity_id = e
       ELSE /\ issued.cmd.protocol \in DOMAIN m.native_groups
            /\ e \in m.native_groups[issued.cmd.protocol].member_entity_ids

\* The member entities a mapping records.
RecordedMembers(m) ==
    m.ungrouped_entities
    \cup UNION {m.native_groups[p].member_entity_ids : p \in DOMAIN m.native_groups}

\* C27: whenever async_dispatch returns true for a group, area, floor or
\* label mapping, every member entity the mapping records is covered by a
\* command that was transmitted: a native group command, an ad-hoc multicast
\* the handler sends, or a platform service call; also for a single member
\* on a protocol and for members on a protocol without an active handler.
C27_DispatchCoversMembers ==
    (lastDispatch.called /\ lastDispatch.handled /\ lastDispatch.fails = {}) =>
        \A i \in DOMAIN NamedKeys :
            (/\ NamedKeys[i] \in DOMAIN mappings
             /\ mappings[NamedKeys[i]].ha_entity_type # GROUPING_TYPE_SCENE) =>
                \A e \in RecordedMembers(mappings[NamedKeys[i]]) :
                    \E j \in IssuedFor(i) :
                        Covers(lastDispatch.issued[j], mappings[NamedKeys[i]], e)

\* C28: after a provisioning pass over the member set M has stored a mapping,
\* every entity of M appears in the mapping, as a member of a native group,
\* as a member of a native scene or in ungrouped_entities; also when
\* create_group raised or store_scene failed on all its attempts.
C28_NoMemberDropped ==
    (lastProv.key # NoKey /\ lastProv.members # {}) =>
        \A e \in lastProv.members : Places(lastProv.mapping, e) # {}

\* Native group n, held by the handler of protocol n[3], is referenced in the
\* managed resources of key k: by its name, by the base name of a Z-Wave
\* capability sub-group, or by the id ZHA gave it.
GroupReferenced(h, k, n) ==
    \E r \in managed_resources[k] :
        /\ r.protocol = n[3]
        /\ r.type = "group"
        /\ \/ r.id = n
           \/ r.id = <<n[1], n[2], n[3]>>
           \/ n \in DOMAIN h.zha_names /\ r.id = h.zha_names[n]

\* The scene stored on the devices is referenced in the managed resources of
\* key k.
SceneReferenced(k, s) ==
    \E r \in managed_resources[k] :
        r.protocol = s[1] /\ r.type = "scene" /\ r.id = s[2] /\ r.scene_id = s[3]

\* C29: whenever no background task is in flight, every native group and
\* scene the orchestrator created that still exists on a handler is
\* referenced in the managed resources of its key; also after a scene whose
\* group was created and whose store failed, after a cleanup in which a
\* delete raised or the handler was absent, and after cancelled tasks.
C29_NoUntrackedResource ==
    (loaded /\ tasks = <<>>) =>
        \A k \in Keys :
            /\ \A n \in NativeGroupsOf(hs, k) : GroupReferenced(hs, k, n)
            /\ \A s \in NativeScenesOf(hs, k) : SceneReferenced(k, s)

\* The native group or scene the reference was recorded for exists in the
\* handler tables h.
ResourceExists(h, r) ==
    IF r.type = "scene" THEN <<r.protocol, r.id, r.scene_id>> \in h.scenes
    ELSE IF r.protocol = PROTOCOL_ZWAVE_JS THEN
        \/ r.id \in DOMAIN h.zw_groups
        \/ \E c \in Capabilities : SubGroupKey(r.id, c) \in DOMAIN h.zw_groups
    ELSE IF r.protocol = PROTOCOL_ZIGBEE2MQTT THEN r.id \in DOMAIN h.z2m_groups
    ELSE \/ r.id \in DOMAIN h.zha_groups
         \/ r.id \in DOMAIN h.zha_names /\ h.zha_names[r.id] \in DOMAIN h.zha_groups

\* The platform holds one scene, with two Z-Wave lights among its members.
CleanupKey == <<GROUPING_TYPE_SCENE, "s1">>
InitCleanup ==
    /\ clock = 1
    /\ groupings = [k \in Keys |->
                        IF k = CleanupKey
                            THEN [exists |-> TRUE,
                                  members |-> InitialMembers(<<GROUPING_TYPE_GROUP, "g1">>)]
                        ELSE [exists |-> FALSE, members |-> {}]]
    /\ loaded = FALSE
    /\ enabled_protocols = Protocols
    /\ handlers = {}
    /\ mappings = <<>>
    /\ managed_resources = [k \in Keys |-> {}]
    /\ scene_id_counter = SCENE_ID_START
    /\ hs = NewHandlerState
    /\ persisted = EmptyStore
    /\ started = FALSE
    /\ sync_pending = FALSE
    /\ tasks = <<>>
    /\ lastProv = NoProv
    /\ lastCleanup = NoCleanup
    /\ lastSync = NoSync
    /\ lastDispatch = NoDispatch
    /\ events = 0
    /\ setups = 0
    /\ allocated = <<>>
    /\ lastReconcile = NoReconcile
    /\ listeners = 0
    /\ stopping = FALSE
    /\ window = NoWindow
    /\ info = NoInfo
    /\ options = GroupingTypes
    /\ limits = [tasks |-> MaxTasks, events |-> MaxBurst]
    /\ lastCall = NoCall
    /\ zha = NewZHAHandler

NextCleanup ==
    \/ \E c \in SetupChoices : SetupEntry(c.enabled, c.components)
    \/ \E ex \in BOOLEAN, ms \in MemberChoices, eager \in BOOLEAN :
            StateChanged(CleanupKey, ex, ms, eager)
    \/ \E action \in {"created", "updated", "deleted"}, eager \in BOOLEAN :
            SceneChanged(CleanupKey, action, eager)
    \/ SyncEntity(CleanupKey)
    \/ \E i \in 1..MaxTasks, oc \in {"ok", "fail"}, ref \in AllRefs : TaskStep(i, oc, ref)

SpecCleanup == InitCleanup /\ [][NextCleanup]_vars

\* C30: after _cleanup_resources(K) has completed with every backend call
\* succeeding, none of the native groups and scenes provisioned for K still
\* exists, on any protocol: each reference identifies its resource by the
\* identifier delete_group / remove_scene accepts, and a scene is removed
\* before its group is deleted, whatever the order of the iteration.
C30_CleanupRemovesEverything ==
    (lastCleanup.done /\ lastCleanup.raised = {}) =>
        \A r \in lastCleanup.refs : ~ResourceExists(lastCleanup.hs, r)

\* -------------------------------------------------------------------------
\* Runs of async_sync_all, one after the other.
\* -------------------------------------------------------------------------

\* The native group ids and native scene ids the mappings record.
NativeIds(ms) ==
    [k \in DOMAIN ms |->
        [groups |-> [p \in DOMAIN ms[k].native_groups |-> ms[k].native_groups[p].group_id],
         scenes |-> [p \in DOMAIN ms[k].native_scenes |-> ms[k].native_scenes[p].scene_id]]]

\* The last two runs of async_sync_all met the same platform states,
\* registries and handlers, and the same handler calls raised in both.
SameConditions ==
    /\ lastSync.runs = 2
    /\ lastSync.prev.groupings = lastSync.cur.groupings
    /\ lastSync.prev.start = lastSync.prev.groupings
    /\ lastSync.cur.start = lastSync.cur.groupings
    /\ lastSync.prev.handlers = lastSync.cur.handlers
    /\ lastSync.prev.failed = lastSync.cur.failed

\* C31: async_sync_all is idempotent on tracked state: run twice in
\* succession with platform states, registries and handlers unchanged, it
\* leaves the managed-resources index and the native group ids and native
\* scene ids of every mapping after the second run as they were after the
\* first; resource references do not accumulate.
C31_SyncAllIdempotent ==
    SameConditions =>
        /\ lastSync.cur.managed_resources = lastSync.prev.managed_resources
        /\ NativeIds(lastSync.cur.mappings) = NativeIds(lastSync.prev.mappings)

\* C32: after async_sync_all completes (at start, on request, or as the
\* debounced re-sync), every key of the mapping table names a logical grouping
\* that currently exists and has a non-empty member set, and each area, floor
\* or label mapping contains only entities currently resolved to that
\* grouping; mappings of groupings deleted or emptied since the previous sync
\* are gone.
C32_SyncAllLeavesLiveMappings ==
    (lastSync.runs >= 1 /\ lastSync.cur.start = lastSync.cur.groupings) =>
        \A k \in DOMAIN lastSync.cur.mappings :
            /\ lastSync.cur.groupings[k].exists
            /\ lastSync.cur.groupings[k].members # {}
            /\ k[1] \in {GROUPING_TYPE_AREA, GROUPING_TYPE_FLOOR, GROUPING_TYPE_LABEL} =>
                    RecordedMembers(lastSync.cur.mappings[k])
                        \subseteq lastSync.cur.groupings[k].members

\* C33: whenever no background task is in flight, the persisted blob agrees
\* with the in-memory state on the set of mapping keys and on the
\* managed-resources index: every operation that changes either of them,
\* the deletion of a grouping and a cleanup not followed by a provisioning
\* included, is followed by a save.
C33_PersistedAgrees ==
    (loaded /\ started /\ tasks = <<>>) =>
        /\ persisted.present
        /\ DOMAIN persisted.mappings = DOMAIN mappings
        /\ persisted.managed_resources = managed_resources

\* -------------------------------------------------------------------------
\* Two scenes, one of them provisioned again and again.
\* -------------------------------------------------------------------------

\* Scene events delivered in one behaviour: enough for the counter to wrap.
MaxSceneEvents == 160

\* The members of both scenes: two Z-Wave lights.
SceneLights == {<<"light", "zc">>, <<"light", "zd">>}

\* The platform holds the two scenes.
InitSceneIds ==
    /\ clock = 1
    /\ groupings = [k \in Keys |->
                        IF k[1] = GROUPING_TYPE_SCENE
                            THEN [exists |-> TRUE, members |-> SceneLights]
                        ELSE [exists |-> FALSE, members |-> {}]]
    /\ loaded = FALSE
    /\ enabled_protocols = Protocols
    /\ handlers = {}
    /\ mappings = <<>>
    /\ managed_resources = [k \in Keys |-> {}]
    /\ scene_id_counter = SCENE_ID_START
    /\ hs = NewHandlerState
    /\ persisted = EmptyStore
    /\ started = FALSE
    /\ sync_pending = FALSE
    /\ tasks = <<>>
    /\ lastProv = NoProv
    /\ lastCleanup = NoCleanup
    /\ lastSync = NoSync
    /\ lastDispatch = NoDispatch
    /\ events = 0
    /\ setups = 0
    /\ allocated = <<>>
    /\ lastReconcile = NoReconcile
    /\ listeners = 0
    /\ stopping = FALSE
    /\ window = NoWindow
    /\ info = NoInfo
    /\ options = GroupingTypes
    /\ limits = [tasks |-> MaxTasks, events |-> MaxSceneEvents]
    /\ lastCall = NoCall
    /\ zha = NewZHAHandler

\* The entry is set up; the scene event for the second scene arrives time
\* and again, each one a pass of _provision_scene.
NextSceneIds ==
    \/ \E c \in SetupChoices : SetupEntry(c.enabled, c.components)
    \/ \E eager \in BOOLEAN : SceneChanged(SecondScene, "created", eager)
    \/ \E i \in 1..MaxTasks, oc \in {"ok", "fail"}, ref \in AllRefs : TaskStep(i, oc, ref)

SpecSceneIds == InitSceneIds /\ [][NextSceneIds]_vars

\* The native scene ids the mapping of key k holds on protocol p.
SceneIdsOf(ms, k, p) ==
    IF k \in DOMAIN ms /\ p \in DOMAIN ms[k].native_scenes
        THEN {ms[k].native_scenes[p].scene_id}
    ELSE {}

\* C34: scene ids are unique among live scenes: no two scene mappings hold a
\* native scene with the same scene_id on the same protocol, and the
\* allocator never returns (to a pass in flight) an id that the mapping of
\* another scene still references, also after the counter has wrapped.
C34_SceneIdsUnique ==
    \A p \in Protocols : \A k1, k2 \in Keys :
        k1 # k2 =>
            /\ SceneIdsOf(mappings, k1, p) \cap SceneIdsOf(mappings, k2, p) = {}
            /\ \A i \in DOMAIN tasks :
                    (tasks[i].st = "prov" /\ tasks[i].loc.key = k1)
                        => tasks[i].loc.scene_id \notin SceneIdsOf(mappings, k2, p)

\* ------------------------------------------------------------ handler calls
\* The handler objects on their own: what a call made directly on a handler
\* leaves in its tables.  Everything the orchestrator holds stays as it is.
orchestrator ==
    <<groupings, loaded, enabled_protocols, handlers, mappings, managed_resources,
      scene_id_counter, persisted, started, sync_pending, tasks, lastProv,
      lastCleanup, lastSync, lastDispatch, events, setups, allocated, lastReconcile,
      listeners, stopping, window, info, options, limits>>

\* Calls made on one ZHAHandler object in a behaviour.
MaxCalls == 4
\* Members a ZHA group list may hold in the model (the list only grows while
\* create_group is called on a name that exists).
MaxMembers == 4

SetMax(S) == CHOOSE x \in S : \A y \in S : y <= x
IntMax(a, b) == IF a >= b THEN a ELSE b

\* zha.py 120-134: the ids of the groups the gateway holds; none when the
\* gateway is not available (ValueError caught).
_async_query_existing_groups(z, available) == IF available THEN z.gateway ELSE {}

\* zha.py 91-119.  next_group_id is None (0 here) until the first call.
_async_ensure_initialized(z, available) ==
    IF z.initialized THEN z
    ELSE LET existing_groups == _async_query_existing_groups(z, available) IN
         [z EXCEPT !.next_group_id =
                        IF existing_groups # {}
                            THEN IntMax(MANAGED_GROUP_ID_START, SetMax(existing_groups) + 1)
                            ELSE MANAGED_GROUP_ID_START,
                   !.initialized = TRUE]

\* zha.py 228-269 with add_members: the early return inside the try when the
\* gateway does not hold the group, else the local list is extended.
async_update_group_members(z, gid, add_members, available) ==
    IF available /\ gid \notin z.gateway THEN z
    ELSE [z EXCEPT !.groups =
                Put(@, gid, (IF gid \in DOMAIN @ THEN @[gid] ELSE <<>>) \o add_members)]

\* zha.py 154-205: the handler afterwards and the id returned.  created: the
\* gateway call returned a group (else it raised and the group is tracked
\* locally only).
ZHAHandler_async_create_group(z0, name, member_native_ids, available, created) ==
    LET z == _async_ensure_initialized(z0, available) IN
    IF name \in DOMAIN z.group_name_to_id THEN
        LET existing_id == z.group_name_to_id[name] IN
        [zha |-> async_update_group_members(z, existing_id, member_native_ids, available),
         id |-> existing_id]
    ELSE
        LET group_id == z.next_group_id IN
        [zha |-> [z EXCEPT
                    !.next_group_id = IF group_id + 1 > MANAGED_GROUP_ID_END
                                         THEN MANAGED_GROUP_ID_START ELSE group_id + 1,
                    !.gateway = IF available /\ created THEN @ \cup {group_id} ELSE @,
                    !.groups = Put(@, group_id, member_native_ids),
                    !.group_name_to_id = Put(@, name, group_id)],
         id |-> group_id]

\* zha.py 206-226 (the scenes of the group aside).
ZHAHandler_async_delete_group(z, gid, available) ==
    [z EXCEPT !.gateway = IF available THEN @ \ {gid} ELSE @,
              !.groups = Drop(@, gid),
              !.group_name_to_id = [k \in {n \in DOMAIN @ : @[n] # gid} |-> @[k]]]

\* zha.py 141-147.
ZHAHandler_async_cleanup(z) ==
    [z EXCEPT !.groups = <<>>, !.group_name_to_id = <<>>, !.initialized = FALSE]

\* The names and member lists the calls are made with.
CallNames(protocol) ==
    {_generate_group_name(k, protocol) :
        k \in {<<GROUPING_TYPE_AREA, "a1">>, <<GROUPING_TYPE_GROUP, "g1">>}}
CallMemberSets == {{"n1"}, {"n2"}, {"n1", "n2"}}
CallMemberLists == {<<"i1">>, <<"i2">>, <<"i1", "i2">>}

\* The tables of the handler the calls of a behaviour are made on.
HandlerTables(protocol) ==
    IF protocol = PROTOCOL_ZHA THEN zha
    ELSE IF protocol = PROTOCOL_ZWAVE_JS THEN hs.zw_groups ELSE hs.z2m_groups

TrackedMembers(tables, protocol, id) ==
    IF protocol = PROTOCOL_ZHA THEN tables.groups[id] ELSE tables[id]
TrackedIds(tables, protocol) ==
    IF protocol = PROTOCOL_ZHA THEN DOMAIN tables.groups ELSE DOMAIN tables
NameExists(tables, protocol, name) ==
    IF protocol = PROTOCOL_ZHA THEN name \in DOMAIN tables.group_name_to_id
    ELSE name \in DOMAIN tables
IdOfName(tables, protocol, name) ==
    IF protocol = PROTOCOL_ZHA THEN tables.group_name_to_id[name] ELSE name

\* create_group(name, M) on the Z-Wave or the Zigbee2MQTT handler; the
\* Zigbee2MQTT call raises when the publish fails and then tracks nothing.
CreateGroup(protocol, name, members, oc) ==
    /\ protocol \in {PROTOCOL_ZWAVE_JS, PROTOCOL_ZIGBEE2MQTT}
    /\ lastCall.protocol = protocol
    /\ oc = "fail" => CanRaise("create", protocol)
    /\ hs' = IF oc = "fail" THEN hs ELSE async_create_group(hs, protocol, name, members).hs
    /\ lastCall' = [NoCall EXCEPT
            !.op = "create_group", !.protocol = protocol, !.name = name,
            !.members = members, !.raised = (oc = "fail"),
            !.id = IF oc = "fail" THEN <<>>
                   ELSE async_create_group(hs, protocol, name, members).id,
            !.before = HandlerTables(protocol),
            !.again = /\ lastCall.op = "create_group" /\ ~lastCall.raised
                      /\ lastCall.name = name /\ lastCall.members = members]
    /\ UNCHANGED <<orchestrator, clock, zha>>

\* create_group(name, M) on the ZHA handler.
ZHACreateGroup(name, members, available, created) ==
    /\ lastCall.protocol = PROTOCOL_ZHA
    /\ lastCall.calls < MaxCalls
    /\ name \in DOMAIN zha.group_name_to_id /\ zha.group_name_to_id[name] \in DOMAIN zha.groups
            => Len(zha.groups[zha.group_name_to_id[name]]) + Len(members) <= MaxMembers
    /\ LET r == ZHAHandler_async_create_group(zha, name, members, available, created) IN
        /\ zha' = r.zha
        /\ lastCall' = [NoCall EXCEPT
                !.op = "create_group", !.protocol = PROTOCOL_ZHA, !.name = name,
                !.members = members, !.id = r.id, !.before = zha,
                !.calls = lastCall.calls + 1,
                !.again = /\ lastCall.op = "create_group"
                          /\ lastCall.name = name /\ lastCall.members = members]
    /\ UNCHANGED <<orchestrator, clock, hs>>

\* One handler object per behaviour, freshly constructed.
HandlersConstructed(call, z) ==
    /\ clock = 1
    /\ groupings = [k \in Keys |-> [exists |-> FALSE, members |-> {}]]
    /\ loaded = FALSE
    /\ enabled_protocols = Protocols
    /\ handlers = {}
    /\ mappings = <<>>
    /\ managed_resources = [k \in Keys |-> {}]
    /\ scene_id_counter = SCENE_ID_START
    /\ hs = NewHandlerState
    /\ persisted = EmptyStore
    /\ started = FALSE
    /\ sync_pending = FALSE
    /\ tasks = <<>>
    /\ lastProv = NoProv
    /\ lastCleanup = NoCleanup
    /\ lastSync = NoSync
    /\ lastDispatch = NoDispatch
    /\ events = 0
    /\ setups = 0
    /\ allocated = <<>>
    /\ lastReconcile = NoReconcile
    /\ listeners = 0
    /\ stopping = FALSE
    /\ window = NoWindow
    /\ info = NoInfo
    /\ options = GroupingTypes
    /\ limits = Limits
    /\ lastCall = call
    /\ zha = z

InitCreateGroup ==
    \E p \in Protocols : HandlersConstructed([NoCall EXCEPT !.protocol = p], NewZHAHandler)

NextCreateGroup ==
    \/ \E p \in Protocols, members \in CallMemberSets, oc \in {"ok", "fail"} :
            \E name \in CallNames(p) : CreateGroup(p, name, members, oc)
    \/ \E members \in CallMemberLists, available \in BOOLEAN, created \in BOOLEAN :
            \E name \in CallNames(PROTOCOL_ZHA) :
                ZHACreateGroup(name, members, available, created)

SpecCreateGroup == InitCreateGroup /\ [][NextCreateGroup]_vars

\* C35: create_group(name, M) on a name the handler already tracks returns
\* the id of the first creation, tracks no further group, and leaves exactly
\* M as the tracked membership of the group; a call with the arguments of the
\* call before it leaves the handler as that call left it.
C35_CreateExistingReplaces ==
    (lastCall.op = "create_group" /\ ~lastCall.raised
        /\ NameExists(lastCall.before, lastCall.protocol, lastCall.name)) =>
        LET p == lastCall.protocol
            now == HandlerTables(p)
        IN  /\ lastCall.id = IdOfName(lastCall.before, p, lastCall.name)
            /\ TrackedIds(now, p) = TrackedIds(lastCall.before, p)
            /\ TrackedMembers(now, p, lastCall.id) = lastCall.members
            /\ lastCall.again => now = lastCall.before

\* ------------------------------------------------------- command dispatch
\* const.py 55-59: the Z-Wave command classes of the commands sent.
CC_BINARY_SWITCH == 37
CC_MULTILEVEL_SWITCH == 38
CC_COLOR_SWITCH == 51

\* One multicast_set_value service call.
SetValue(device_ids, cc, value) ==
    [device_id |-> device_ids, command_class |-> cc,
     property |-> IF cc = CC_COLOR_SWITCH THEN "targetColor" ELSE "targetValue",
     value |-> value]

\* zwave_js.py 88-113 over a list of nodes: the devices that resolve
\* (node_to_device: the cache and the registry of a connected driver).
DeviceIds(node_ids, node_to_device) ==
    {node_to_device[n] : n \in node_ids \cap DOMAIN node_to_device}

\* int(brightness * 99 / 255)
Level(brightness) == (brightness * 99) \div 255

\* zwave_js.py 447-479: the service calls made.
_send_binary_command(node_ids, turn_on, node_to_device) ==
    IF DeviceIds(node_ids, node_to_device) = {} THEN <<>>
    ELSE <<SetValue(DeviceIds(node_ids, node_to_device), CC_BINARY_SWITCH, turn_on)>>

\* zwave_js.py 481-516
_send_multilevel_command(node_ids, brightness, node_to_device) ==
    IF DeviceIds(node_ids, node_to_device) = {} THEN <<>>
    ELSE <<SetValue(DeviceIds(node_ids, node_to_device), CC_MULTILEVEL_SWITCH,
                    Level(brightness))>>

\* zwave_js.py 606-653 on the colors of the model, as colorsys and the
\* float arithmetic of the source compute them (xy in thousandths).
_hs_to_rgb(hs_color) == CASE hs_color = <<120, 50>> -> <<127, 255, 127>>
_xy_to_rgb(xy_color) == CASE xy_color = <<300, 300>> -> <<255, 245, 255>>
_color_temp_to_white_channels(service_data) ==
    LET kelvin == IF "color_temp_kelvin" \in DOMAIN service_data
                      THEN service_data.color_temp_kelvin
                  ELSE IF service_data.color_temp > 0
                      THEN 1000000 \div service_data.color_temp
                  ELSE 4000
    IN  CASE kelvin = 3000 -> [warmWhite |-> 234, coldWhite |-> 20]
          [] kelvin = 4000 -> [warmWhite |-> 167, coldWhite |-> 87]

\* zwave_js.py 567-604: None (no channel, <<>>) when the data holds no color.
_build_color_value(service_data) ==
    LET keys == DOMAIN service_data IN
    IF "rgb_color" \in keys THEN
        [red |-> service_data.rgb_color[1], green |-> service_data.rgb_color[2],
         blue |-> service_data.rgb_color[3]]
    ELSE IF "rgbw_color" \in keys THEN
        [red |-> service_data.rgbw_color[1], green |-> service_data.rgbw_color[2],
         blue |-> service_data.rgbw_color[3], warmWhite |-> service_data.rgbw_color[4]]
    ELSE IF "rgbww_color" \in keys THEN
        [red |-> service_data.rgbww_color[1], green |-> service_data.rgbww_color[2],
         blue |-> service_data.rgbww_color[3], warmWhite |-> service_data.rgbww_color[4],
         coldWhite |-> service_data.rgbww_color[5]]
    ELSE IF "hs_color" \in keys THEN
        LET rgb == _hs_to_rgb(service_data.hs_color)
        IN  [red |-> rgb[1], green |-> rgb[2], blue |-> rgb[3]]
    ELSE IF "xy_color" \in keys THEN
        LET rgb == _xy_to_rgb(service_data.xy_color)
        IN  [red |-> rgb[1], green |-> rgb[2], blue |-> rgb[3]]
    ELSE IF "color_temp" \in keys \/ "color_temp_kelvin" \in keys THEN
        _color_temp_to_white_channels(service_data)
    ELSE <<>>

\* zwave_js.py 518-565
_send_color_command(node_ids, service_data, node_to_device) ==
    LET device_ids == DeviceIds(node_ids, node_to_device)
        color_value == _build_color_value(service_data)
    IN  IF device_ids = {} THEN <<>>
        ELSE (IF DOMAIN color_value # {}
                THEN <<SetValue(device_ids, CC_COLOR_SWITCH, color_value)>> ELSE <<>>)
             \o (IF "brightness" \in DOMAIN service_data
                    THEN _send_multilevel_command(node_ids, service_data.brightness,
                                                  node_to_device)
                 ELSE IF DOMAIN color_value = {}
                    THEN _send_binary_command(node_ids, TRUE, node_to_device)
                 ELSE <<>>)

\* The keys _send_capability_aware_command takes for a color (zwave_js.py
\* 376-379).
HasColorKeys == {"rgb_color", "rgbw_color", "hs_color", "xy_color", "color_temp"}

get_capability_group_nodes(h, base_name, capability) ==
    Get(h.zw_groups, SubGroupKey(base_name, capability), {})

\* A handler that switches every sub-group on or off and sets no level.
CapabilityCommand_binary_only(h, base_name, capability, service, service_data, node_to_device) ==
    LET nodes == get_capability_group_nodes(h, base_name, capability)
    IN  IF capability \notin Get(h.zw_caps, base_name, {}) \/ nodes = {} THEN <<>>
        ELSE _send_binary_command(nodes, service = "turn_on", node_to_device)

\* zwave_js.py 356-445: the service calls made for one capability sub-group,
\* and for the group.
CapabilityCommand(h, base_name, capability, service, service_data, node_to_device) ==
    LET nodes == get_capability_group_nodes(h, base_name, capability)
        has_color == DOMAIN service_data \cap HasColorKeys # {}
        has_brightness == "brightness" \in DOMAIN service_data
    IN  IF capability \notin Get(h.zw_caps, base_name, {}) \/ nodes = {} THEN <<>>
        ELSE IF capability = ZWAVE_CAP_COLOR /\ has_color /\ service = "turn_on"
            THEN _send_color_command(nodes, service_data, node_to_device)
        ELSE IF capability # ZWAVE_CAP_BINARY /\ has_brightness /\ service = "turn_on"
            THEN _send_multilevel_command(nodes, service_data.brightness, node_to_device)
        ELSE _send_binary_command(nodes, service = "turn_on", node_to_device)

_send_capability_aware_command(h, base_name, service, service_data, node_to_device) ==
    [c \in Capabilities |->
        CapabilityCommand(h, base_name, c, service, service_data, node_to_device)]

\* zwave_js.py 722-753: the command class and value; raises for a service
\* that is not supported.
_map_service_to_zwave(domain, service, data) ==
    IF domain = "light" /\ service = "turn_on" THEN
        IF "brightness" \in DOMAIN data
            THEN [raises |-> FALSE, cc |-> CC_MULTILEVEL_SWITCH,
                  value |-> Level(data.brightness)]
            ELSE [raises |-> FALSE, cc |-> CC_BINARY_SWITCH, value |-> TRUE]
    ELSE IF domain = "light" /\ service = "turn_off" THEN
        [raises |-> FALSE, cc |-> CC_BINARY_SWITCH, value |-> FALSE]
    ELSE IF domain = "switch" THEN
        [raises |-> FALSE, cc |-> CC_BINARY_SWITCH, value |-> (service = "turn_on")]
    ELSE [raises |-> TRUE, cc |-> 0, value |-> "None"]

\* zwave_js.py 682-720
ZWaveJSHandler_async_send_multicast(native_ids, domain, service, service_data, node_to_device) ==
    LET m == _map_service_to_zwave(domain, service, service_data) IN
    IF DeviceIds(native_ids, node_to_device) = {} \/ m.raises THEN <<>>
    ELSE <<SetValue(DeviceIds(native_ids, node_to_device), m.cc, m.value)>>

\* zwave_js.py 777-796
ZWaveJSHandler_convert_service_data(domain, service, data) ==
    (IF "brightness" \in DOMAIN data THEN [level |-> Level(data.brightness)]
     ELSE IF service = "turn_on" THEN [level |-> 99]
     ELSE IF service = "turn_off" THEN [level |-> 0]
     ELSE <<>>)
    @@ (IF "transition" \in DOMAIN data THEN [duration |-> data.transition] ELSE <<>>)

\* zigbee2mqtt.py 270-323 (lights and switches).
Zigbee2MQTTHandler_convert_service_data(domain, service, data) ==
    IF domain = "light" /\ service = "turn_on" THEN
        (IF "transition" \in DOMAIN data THEN [transition |-> data.transition] ELSE <<>>)
        @@ (IF "hs_color" \in DOMAIN data
                THEN [color |-> [hue |-> data.hs_color[1], saturation |-> data.hs_color[2]]]
            ELSE IF "xy_color" \in DOMAIN data
                THEN [color |-> [x |-> data.xy_color[1], y |-> data.xy_color[2]]]
            ELSE IF "rgb_color" \in DOMAIN data
                THEN [color |-> [r |-> data.rgb_color[1], g |-> data.rgb_color[2],
                                 b |-> data.rgb_color[3]]]
            ELSE <<>>)
        @@ (IF "color_temp" \in DOMAIN data THEN [color_temp |-> data.color_temp] ELSE <<>>)
        @@ (IF "brightness" \in DOMAIN data THEN [brightness |-> data.brightness] ELSE <<>>)
        @@ [state |-> "ON"]
    ELSE IF domain = "light" /\ service = "turn_off" THEN
        (IF "transition" \in DOMAIN data THEN [transition |-> data.transition] ELSE <<>>)
        @@ [state |-> "OFF"]
    ELSE [state |-> IF service = "turn_on" THEN "ON" ELSE "OFF"]

\* async_send_group_command of the two handlers (zwave_js.py 332-354,
\* zigbee2mqtt.py 209-223): the service calls per capability, the payload
\* published to the topic of the group.
ZWaveJSHandler_async_send_group_command(h, group_id, domain, service, service_data, node_to_device) ==
    IF group_id \in DOMAIN h.zw_caps
        THEN _send_capability_aware_command(h, group_id, service, service_data,
                                            node_to_device)
    ELSE [c \in Capabilities |-> <<>>]
Zigbee2MQTTHandler_async_send_group_command(group_id, domain, service, service_data) ==
    [topic |-> group_id,
     payload |-> Zigbee2MQTTHandler_convert_service_data(domain, service, service_data)]

\* ---- the calls of a dispatch, on the handlers
\* The Z-Wave nodes of the grouping and their devices.
CommandNodes == [color |-> 5, dimmer |-> 6, binary |-> 7]
NodeDevices ==
    (CommandNodes.color :> "d5") @@ (CommandNodes.dimmer :> "d6")
        @@ (CommandNodes.binary :> "d7")
\* The nodes per capability of the groupings provisioned.
CapabilitySplits ==
    { [c \in Capabilities |->
          CASE c = ZWAVE_CAP_COLOR -> {CommandNodes.color} \cap S
            [] c = ZWAVE_CAP_DIMMER -> {CommandNodes.dimmer} \cap S
            [] OTHER -> {CommandNodes.binary} \cap S] :
        S \in {{CommandNodes.color, CommandNodes.dimmer, CommandNodes.binary}, {CommandNodes.color, CommandNodes.dimmer},
               {CommandNodes.dimmer, CommandNodes.binary}} }

\* Service data: a brightness or none, one color representation or none.
BrightnessChoices == {<<>>} \cup {[brightness |-> b] : b \in 0..255}
ColorChoices ==
    { <<>>, [rgb_color |-> <<255, 0, 0>>], [rgbw_color |-> <<255, 0, 0, 10>>],
      [rgbww_color |-> <<255, 0, 0, 10, 20>>], [hs_color |-> <<120, 50>>],
      [xy_color |-> <<300, 300>>], [color_temp |-> 250], [color_temp_kelvin |-> 3000] }
ServiceData == {b @@ c : b \in BrightnessChoices, c \in ColorChoices}
ColorRepresentations ==
    {"rgb_color", "rgbw_color", "rgbww_color", "hs_color", "xy_color", "color_temp",
     "color_temp_kelvin"}
CommandDomains == {"light", "homeassistant"}
CommandServices == {"turn_on", "turn_off"}
CommandGroup(protocol) == _generate_group_name(<<GROUPING_TYPE_AREA, "a1">>, protocol)

\* A behaviour ends with the command it sends.
Commanded == lastCall.op \notin {"none", "provision"}

\* _provision_entity_list on the handlers: the capability groups of the
\* Z-Wave members and the Zigbee2MQTT group of the others.
ProvisionHandlers(split) ==
    /\ ~Commanded
    /\ hs' = async_create_group(
                async_create_capability_groups(
                    hs, CommandGroup(PROTOCOL_ZWAVE_JS), split).hs,
                PROTOCOL_ZIGBEE2MQTT, CommandGroup(PROTOCOL_ZIGBEE2MQTT), {"0xa1", "0xa2"}).hs
    /\ lastCall' = [NoCall EXCEPT !.op = "provision"]
    /\ UNCHANGED <<orchestrator, clock, zha>>

\* _dispatch_group on the native groups of the grouping: one
\* async_send_group_command per handler, with the same service data.
SendGroupCommand(domain, service, data, node_to_device) ==
    /\ ~Commanded
    /\ CommandGroup(PROTOCOL_ZWAVE_JS) \in DOMAIN hs.zw_caps
    /\ lastCall' = [NoCall EXCEPT
            !.op = "send_group_command", !.domain = domain, !.service = service,
            !.data = data, !.before = node_to_device,
            !.sent = [zwave_js |-> ZWaveJSHandler_async_send_group_command(
                                        hs, CommandGroup(PROTOCOL_ZWAVE_JS), domain,
                                        service, data, node_to_device),
                      zigbee2mqtt |-> Zigbee2MQTTHandler_async_send_group_command(
                                        CommandGroup(PROTOCOL_ZIGBEE2MQTT), domain,
                                        service, data)]]
    /\ UNCHANGED <<orchestrator, clock, zha, hs>>

\* _dispatch_group on a grouping with one Z-Wave member (no group id).
SendMulticast(domain, service, data, node_to_device) ==
    /\ ~Commanded
    /\ lastCall' = [NoCall EXCEPT
            !.op = "send_multicast", !.domain = domain, !.service = service,
            !.data = data, !.before = node_to_device,
            !.sent = ZWaveJSHandler_async_send_multicast(
                        {CommandNodes.dimmer}, domain, service, data, node_to_device)]
    /\ UNCHANGED <<orchestrator, clock, zha, hs>>

\* _provision_native_scene 581-590: the state of one scene member converted
\* for async_store_scene.
ConvertServiceData(domain, service, data) ==
    /\ ~Commanded
    /\ lastCall' = [NoCall EXCEPT
            !.op = "convert_service_data", !.domain = domain, !.service = service,
            !.data = data,
            !.sent = ZWaveJSHandler_convert_service_data(domain, service, data)]
    /\ UNCHANGED <<orchestrator, clock, zha, hs>>

InitCommand == HandlersConstructed(NoCall, NewZHAHandler)

NextCommand ==
    \/ ~Commanded /\ \E split \in CapabilitySplits : ProvisionHandlers(split)
    \/ ~Commanded /\
            \E domain \in CommandDomains, service \in CommandServices, data \in ServiceData,
               node_to_device \in {NodeDevices, <<>>} :
                SendGroupCommand(domain, service, data, node_to_device)
    \/ ~Commanded /\
            \E domain \in CommandDomains, service \in CommandServices, data \in ServiceData,
               node_to_device \in {NodeDevices, <<>>} :
                SendMulticast(domain, service, data, node_to_device)
    \/ ~Commanded /\
            \E service \in CommandServices, data \in ServiceData :
                ConvertServiceData("light", service, data)

SpecCommand == InitCommand /\ [][NextCommand]_vars

\* ---- what the last call sent
SubGroups == Get(hs.zw_caps, CommandGroup(PROTOCOL_ZWAVE_JS), {})
SentTo(capability) == lastCall.sent.zwave_js[capability]
Classes(commands) == [i \in DOMAIN commands |-> commands[i].command_class]
SubGroupDevices(capability) ==
    DeviceIds(get_capability_group_nodes(hs, CommandGroup(PROTOCOL_ZWAVE_JS), capability),
              NodeDevices)

\* A turn_on sent to the groups of the grouping with a brightness and none
\* of the color fields.
BrightnessTurnOn ==
    /\ lastCall.op = "send_group_command"
    /\ lastCall.service = "turn_on"
    /\ "brightness" \in DOMAIN lastCall.data
    /\ DOMAIN lastCall.data \cap ColorRepresentations = {}

BrightnessCommands ==
    /\ \A c \in SubGroups :
        /\ Len(SentTo(c)) = 1
        /\ SentTo(c)[1].device_id = SubGroupDevices(c)
        /\ SentTo(c)[1].command_class =
                IF c = ZWAVE_CAP_BINARY THEN CC_BINARY_SWITCH ELSE CC_MULTILEVEL_SWITCH
        /\ c = ZWAVE_CAP_BINARY => SentTo(c)[1].value = TRUE
    /\ \A c \in Capabilities \ SubGroups : SentTo(c) = <<>>
    /\ lastCall.sent.zigbee2mqtt.topic = CommandGroup(PROTOCOL_ZIGBEE2MQTT)
    /\ lastCall.sent.zigbee2mqtt.payload.state = "ON"
    /\ "brightness" \in DOMAIN lastCall.sent.zigbee2mqtt.payload
    /\ lastCall.sent.zigbee2mqtt.payload.brightness = lastCall.data.brightness

C37_ColorToColorSubGroup ==
    (/\ lastCall.op = "send_group_command"
     /\ lastCall.service = "turn_on"
     /\ lastCall.before = NodeDevices
     /\ DOMAIN lastCall.data \cap ColorRepresentations # {}
     /\ ZWAVE_CAP_COLOR \in SubGroups) =>
        /\ \E i \in DOMAIN SentTo(ZWAVE_CAP_COLOR) :
                SentTo(ZWAVE_CAP_COLOR)[i].command_class = CC_COLOR_SWITCH
        /\ (\E i \in DOMAIN SentTo(ZWAVE_CAP_COLOR) :
                SentTo(ZWAVE_CAP_COLOR)[i].command_class = CC_MULTILEVEL_SWITCH)
            <=> "brightness" \in DOMAIN lastCall.data
        /\ \A c \in {ZWAVE_CAP_DIMMER, ZWAVE_CAP_BINARY} :
                \A i \in DOMAIN SentTo(c) : SentTo(c)[i].command_class # CC_COLOR_SWITCH

\* The levels the last call sent in Multilevel Switch calls or converted for
\* a scene.
MultilevelValues(commands) ==
    {commands[i].value :
        i \in {j \in DOMAIN commands : commands[j].command_class = CC_MULTILEVEL_SWITCH}}
LevelsSent ==
    CASE lastCall.op = "send_group_command" ->
            UNION {MultilevelValues(SentTo(c)) : c \in Capabilities}
      [] lastCall.op = "send_multicast" -> MultilevelValues(lastCall.sent)
      [] lastCall.op = "convert_service_data" ->
            IF "level" \in DOMAIN lastCall.sent THEN {lastCall.sent.level} ELSE {}
      [] OTHER -> {}

\* C40: the level a Z-Wave turn_on with brightness b sends (multicast,
\* capability-aware command) or stores (scene programming) lies in 1..99 for
\* b in 1..255, is 0 for b = 0 and 99 for b = 255.
C40_LevelScaling ==
    (lastCall.service = "turn_on" /\ "brightness" \in DOMAIN lastCall.data) =>
        \A level \in LevelsSent :
            /\ lastCall.data.brightness \in 1..255 => level \in 1..99
            /\ lastCall.data.brightness = 0 => level = 0
            /\ lastCall.data.brightness = 255 => level = 99

\* ------------------------------------------------------- ZHA group ids
\* The ids of the groups the gateway reports when the handler is constructed:
\* none, a user group below the managed range, groups inside it and a group
\* above it.
BackendGroupIds ==
    { {}, {1}, {1, MANAGED_GROUP_ID_START}, {MANAGED_GROUP_ID_END - 1},
      {MANAGED_GROUP_ID_START, MANAGED_GROUP_ID_END - 1}, {MANAGED_GROUP_ID_END},
      {MANAGED_GROUP_ID_END + 1} }

\* async_delete_group on a group the handler tracks.
ZHADeleteGroup(gid, available) ==
    /\ gid \in DOMAIN zha.groups
    /\ lastCall.calls < MaxCalls
    /\ zha' = ZHAHandler_async_delete_group(zha, gid, available)
    /\ lastCall' = [NoCall EXCEPT !.op = "delete_group", !.protocol = PROTOCOL_ZHA,
                                  !.calls = lastCall.calls + 1,
                                  !.id = gid, !.before = zha]
    /\ UNCHANGED <<orchestrator, clock, hs>>

\* async_cleanup: the handler forgets its groups and initializes again on
\* the next call.
ZHACleanup ==
    /\ zha.initialized
    /\ lastCall.calls < MaxCalls
    /\ zha' = ZHAHandler_async_cleanup(zha)
    /\ lastCall' = [NoCall EXCEPT !.op = "cleanup", !.protocol = PROTOCOL_ZHA,
                                  !.calls = lastCall.calls + 1,
                                  !.before = zha]
    /\ UNCHANGED <<orchestrator, clock, hs>>

InitZHAIds ==
    \E ids \in BackendGroupIds :
        HandlersConstructed([NoCall EXCEPT !.protocol = PROTOCOL_ZHA],
                            [NewZHAHandler EXCEPT !.gateway = ids])

NextZHAIds ==
    \/ \E members \in {<<"i1">>}, available \in BOOLEAN, created \in BOOLEAN :
            \E name \in CallNames(PROTOCOL_ZHA) :
                ZHACreateGroup(name, members, available, created)
    \/ \E gid \in DOMAIN zha.groups, available \in BOOLEAN : ZHADeleteGroup(gid, available)
    \/ ZHACleanup

SpecZHAIds == InitZHAIds /\ [][NextZHAIds]_vars

\* C38: an id create_group allocates (the name was not tracked) lies in
\* MANAGED_GROUP_ID_START..MANAGED_GROUP_ID_END and is the id of no group
\* that exists when it is allocated, on the gateway or in the handler.
C38_AllocatedIdFreeAndInRange ==
    (/\ lastCall.op = "create_group"
     /\ lastCall.protocol = PROTOCOL_ZHA
     /\ lastCall.name \notin DOMAIN lastCall.before.group_name_to_id) =>
        /\ lastCall.id \in MANAGED_GROUP_ID_START..MANAGED_GROUP_ID_END
        /\ lastCall.id \notin lastCall.before.gateway \cup DOMAIN lastCall.before.groups

\* ------------------------------------------------------------------ frame
\* Instants the clock passes through in a behaviour.
MaxClock == 2

\* Time passes.
Tick ==
    /\ clock < MaxClock
    /\ clock' = clock + 1
    /\ UNCHANGED <<orchestrator, hs, lastCall, zha>>

\* The entry is set up, time passes, and the state of the group changes:
\* the group is provisioned, provisioned again or deleted.
NextFrame ==
    \/ \E c \in SetupChoices : SetupEntry(c.enabled, c.components)
    \/ \E k \in KeysOfType(GROUPING_TYPE_GROUP), ex \in BOOLEAN, ms \in MemberChoices,
          eager \in BOOLEAN :
            StateChanged(k, ex, ms, eager)
    \/ \E i \in 1..MaxTasks, oc \in {"ok", "fail"}, ref \in AllRefs : TaskStep(i, oc, ref)
    \/ Tick

SpecFrame == Init /\ [][NextFrame]_vars

\* C39: a step of the coroutine that provisions, provisions again or deletes
\* the grouping K leaves the mapping of every other key as it is, every field
\* and last_synced too, and the managed resources of every other key.
C39_OtherKeysUnchanged ==
    [][\A i \in 1..Len(tasks) :
        (/\ tasks[i].key # NoKey
         /\ \E oc \in {"ok", "fail"}, ref \in AllRefs : TaskStep(i, oc, ref)) =>
            \A k \in Keys \ {tasks[i].key} :
                /\ k \in DOMAIN mappings <=> k \in DOMAIN mappings'
                /\ k \in DOMAIN mappings => mappings'[k] = mappings[k]
                /\ managed_resources'[k] = managed_resources[k]]_vars

====
